---- MODULE Spec2Model ----
(***************************************************************************)
(* A3D: the per-renderer resource-cache lifecycle and the GL state stack   *)
(* of RendererOGL.                                                         *)
(*                                                                         *)
(* Resources (Material, Texture, ...) own a map rendererID -> weak     *)
(* pointer to a cache object; the cache is a QObject child of its          *)
(* resource.  RendererOGL::buildXCache fetches or creates the cache,       *)
(* updates it when dirty and registers it when it was created.             *)
(***************************************************************************)
EXTENDS Integers, Sequences, FiniteSets, TLC

\* ------------------------------------------------------------------ bounds
\* Number of cache objects ever allocated in one run.
MaxCaches == 2
\* Number of GL calls the code around the state stack makes in one run.
MaxGLCalls == 3
\* Nesting depth of the passes explored together with those GL calls.
MaxNesting == 2
\* Framebuffer objects allocated by pushState(true) at one time.
MaxFramebuffers == 2
\* Translucent draws that overlap on one pixel of the OIT buffers.
MaxOverlap == 2
\* Number of cache objects deleted in one run of the preloads.
MaxDeleted == 1
\* GPU objects of one kind that a renderer has generated and not deleted.
MaxAllocated == 2

\* ------------------------------------------------------------ the universe
\* rendererID values of the RendererOGL instances.
RendererIDs == {1, 2}
\* Resource identities.
Resources == {1, 2}
\* The resources an entity's model refers to: one of each type.
EntityResources == 1..5
\* The resource type of each resource.
Kind(res) ==
    CASE res = 1 -> "material"
      [] res = 2 -> "texture"
      [] res = 3 -> "mesh"
      [] res = 4 -> "materialProperties"
      [] OTHER -> "lineGroup"
\* Shader sources of a material: complete and linking, a stage missing,
\* or complete but failing to link.
ShaderStates == {"ok", "empty", "nolink"}
\* Concrete cache types: the OpenGL backend's, and another backend's.
CacheTypes == {"OGL", "Other"}
\* std::numeric_limits<std::uintptr_t>::max(), the "all renderers" id.
ALL == 0
\* No slot entry / null pointer.
NoEntry == 0
\* LogChannel values.
LC_Debug == "debug"
LC_Info == "info"
LC_Warning == "warning"
LC_Critical == "critical"
\* The depth compared against in pushState: m_stateStorage.size() > 24.
MaxStateStack == 24
\* GL enumerations.
Features == {"GL_DEPTH_TEST", "GL_CULL_FACE", "GL_BLEND"}
Targets == {"GL_TEXTURE_2D", "GL_TEXTURE_CUBE_MAP"}
Units == {0, 1}
TextureNames == {0, 1}
ProgramNames == {0, 1}
Viewports == {0, 1}

VARIABLES
    resAlive,   \* resAlive[res]: the resource object exists
    shader,     \* shader[res]: Material::m_shaders of a material
    slot,       \* slot[res][id]: m_xxxCache, id -> QPointer<XCache> (NoEntry: no key)
    caches,     \* caches[c]: the cache objects ever allocated, by address
    rend,       \* rend[id]: the RendererOGL with that rendererID
    curCtx,     \* QOpenGLContext::currentContext(): a rendererID, or 0 for none
    lastOp,     \* the last call made and what it returned
    logged,     \* the channels written to by the last call
    gl,         \* the global state of the GL context the renderer draws with
    fbs,        \* the framebuffer objects pushState has generated and not deleted
    stateStorage, \* RendererOGL::m_stateStorage, top of the stack last
    glCalls,    \* number of GL calls made around the stack so far
    phase,      \* where the renderer is in the frame that DrawAll drives
    members,    \* the members of RendererOGL that the frame creates lazily
    blendFunc,  \* the GL blend function, <<source factor, destination factor>>
    ubo,        \* the light data held by the scene uniform buffer on the GPU
    pixels,     \* pixels[fb]: the layers drawn into framebuffer fb since its last clear
    drawn,      \* the group of the last Draw, and the buildXCache calls and
                \* the draw calls of the last operation of the frame
    oit,        \* one pixel of the OIT buffers and of the composite's output
    entity      \* the transform fields of one Entity and its cached matrix

cacheVars == <<resAlive, shader, slot, caches, rend, curCtx>>
stackVars == <<gl, fbs, stateStorage, glCalls>>
frameVars == <<phase, members, blendFunc, ubo, pixels, drawn, oit, entity>>

\* ------------------------------------------------------------ cache objects
\* The uniform names handed to applyUniform (the second has no location in
\* the program) and the QVariant values: two ints and one of a type that
\* applyUniform's switch does not handle.
UniformNames == {"uAccumColor", "uUnknown"}
UniformValues == {<<"Int", 0>>, <<"Int", 1>>, <<"QString", 0>>}

\* QVariant(): the m_lastValue of a fresh UniformCachedInfo.
NoValue == <<"Invalid", 0>>

\* m_uniformCachedInfo after clear(): no name has a recorded value.
NoUniforms == [n \in UniformNames |-> NoValue]

\* A cache constructor that starts with the dirty flag cleared.
NewCache_clean(res, rendererID, T) ==
    [res |-> res, rid |-> rendererID, type |-> T, alive |-> TRUE,
     dirty |-> FALSE, gpu |-> FALSE, handles |-> 0, ctxFree |-> TRUE,
     m_uniformCachedInfo |-> NoUniforms]

\* XCache::XCache(parent): a QObject child of the resource, dirty from construction.
NewCache(res, rendererID, T) ==
    [res |-> res, rid |-> rendererID, type |-> T, alive |-> TRUE,
     dirty |-> TRUE, gpu |-> FALSE, handles |-> 0, ctxFree |-> TRUE,
     m_uniformCachedInfo |-> NoUniforms]

\* A QPointer that never notices that its object was destroyed.
isNull_never(c) == FALSE

\* QPointer::isNull() of a slot entry that exists.
isNull(c) == ~caches[c].alive

\* XCache::isDirty
isDirty(cache) == cache.dirty

\* XCache::markDirty
markDirty(cache) == [cache EXCEPT !.dirty = TRUE]

\* XCache::markClean
markClean(cache) == [cache EXCEPT !.dirty = FALSE]

\* getOrEmplaceXCache that replaces a cache of another concrete type.
getOrEmplaceCache_replace(res, rendererID, T) ==
    LET it == slot[res][rendererID] IN
    IF it = NoEntry \/ isNull(it) \/ caches[it].type # T
    THEN LET c == Len(caches) + 1 IN
         [threw |-> FALSE, ptr |-> c, created |-> TRUE,
          caches |-> Append(caches, NewCache(res, rendererID, T)),
          slot |-> [slot EXCEPT ![res][rendererID] = c]]
    ELSE [threw |-> FALSE, ptr |-> it, created |-> FALSE,
          caches |-> caches, slot |-> slot]

\* getOrEmplaceXCache that drops the slot entry before it throws.
getOrEmplaceCache_erase(res, rendererID, T) ==
    LET it == slot[res][rendererID] IN
    IF it = NoEntry \/ isNull(it)
    THEN LET c == Len(caches) + 1 IN
         [threw |-> FALSE, ptr |-> c, created |-> TRUE,
          caches |-> Append(caches, NewCache(res, rendererID, T)),
          slot |-> [slot EXCEPT ![res][rendererID] = c]]
    ELSE IF caches[it].type # T
         THEN [threw |-> TRUE, ptr |-> NoEntry, created |-> FALSE,
               caches |-> caches, slot |-> [slot EXCEPT ![res][rendererID] = NoEntry]]
         ELSE [threw |-> FALSE, ptr |-> it, created |-> FALSE,
               caches |-> caches, slot |-> slot]

\* getOrEmplaceXCache that hands out the stale pointer of a destroyed cache.
getOrEmplaceCache_stale(res, rendererID, T) ==
    LET it == slot[res][rendererID] IN
    IF it = NoEntry
    THEN LET c == Len(caches) + 1 IN
         [threw |-> FALSE, ptr |-> c, created |-> TRUE,
          caches |-> Append(caches, NewCache(res, rendererID, T)),
          slot |-> [slot EXCEPT ![res][rendererID] = c]]
    ELSE [threw |-> FALSE, ptr |-> it, created |-> FALSE,
          caches |-> caches, slot |-> slot]

\* Resource::getOrEmplaceXCache<T>(rendererID)
getOrEmplaceCache(res, rendererID, T) ==
    LET it == slot[res][rendererID] IN
    IF it = NoEntry \/ isNull(it)
    THEN LET c == Len(caches) + 1 IN
         [threw |-> FALSE, ptr |-> c, created |-> TRUE,
          caches |-> Append(caches, NewCache(res, rendererID, T)),
          slot |-> [slot EXCEPT ![res][rendererID] = c]]
    ELSE IF caches[it].type # T
         THEN [threw |-> TRUE, ptr |-> NoEntry, created |-> FALSE,
               caches |-> caches, slot |-> slot]
         ELSE [threw |-> FALSE, ptr |-> it, created |-> FALSE,
               caches |-> caches, slot |-> slot]

\* std::unique_ptr::reset(): the object the cache owned, if any, is
\* destroyed and its GPU handle released. handles counts the GPU objects
\* the cache allocated and has not released.
reset(cache) == [cache EXCEPT !.gpu = FALSE, !.handles = 0]

\* An assignment that drops the old object without destroying it.
make_unique_leak(cache) == [cache EXCEPT !.gpu = TRUE, !.handles = @ + 1]

\* m_program / m_texture = std::make_unique<...>(): a new GPU object is
\* owned, and the assignment destroys the one owned before.
make_unique(cache) == [cache EXCEPT !.gpu = TRUE, !.handles = 1]

\* MaterialCacheOGL::update: no program and no markClean when a stage is
\* missing or the link fails.
MaterialCacheOGL_update(cache, sh) ==
    IF sh = "empty" THEN reset(cache)
    ELSE IF sh = "nolink" THEN reset(make_unique(cache))
    ELSE markClean([make_unique(cache) EXCEPT !.m_uniformCachedInfo = NoUniforms])

\* TextureCacheOGL::update: a new QOpenGLTexture replaces m_texture.
TextureCacheOGL_update(cache) ==
    make_unique(cache)

\* MeshCacheOGL, MaterialPropertiesCacheOGL and LineGroupCacheOGL::update:
\* the GPU objects are filled and the cache is clean.
XCacheOGL_update(cache) ==
    markClean([cache EXCEPT !.gpu = TRUE, !.handles = 1])

\* XCacheOGL::update, by resource type
update(res, cache) ==
    IF Kind(res) = "material" THEN MaterialCacheOGL_update(cache, shader[res])
    ELSE IF Kind(res) = "texture" THEN TextureCacheOGL_update(cache)
    ELSE XCacheOGL_update(cache)

\* The record kept of a call.
Op(name, res, rendererID, ptr, created, updates, threw) ==
    [op |-> name, res |-> res, rid |-> rendererID, ptr |-> ptr,
     created |-> created, updates |-> updates, threw |-> threw,
     prevOp |-> "-", prevPtr |-> -1, prevUpdates |-> 0]

\* ------------------------------------------------------------ the registry
\* Renderer::getRenderer(rendererID): the live renderer registered under the id.
getRenderer(rendererID) ==
    IF rend[rendererID].state = "alive" THEN rendererID ELSE NoEntry

\* Renderer::addToXCaches: one more weak reference in the tracking collection.
\* adds counts the calls.
addToCachesIn(rd, r, c) ==
    [rd EXCEPT ![r].tracked = @ \cup {c}, ![r].adds = @ + 1]

addToCaches(r, c) == addToCachesIn(rend, r, c)

\* buildXCache that never registers the cache.
registers_never(created) == FALSE

\* buildXCache that registers the cache on every call.
registers_always(created) == TRUE

\* buildXCache registers the cache when getOrEmplaceXCache created it.
registers(created) == created

\* The destructor of a cache object: its GPU handles are released under
\* whatever context is current.
destroyCache(cache, ctxCurrent) ==
    [cache EXCEPT !.alive = FALSE, !.dirty = FALSE, !.gpu = FALSE,
                  !.handles = 0,
                  !.ctxFree = (~cache.gpu) \/ ctxCurrent]

\* ContextSwitcher: the renderer's context is current inside the scope.
ContextSwitcher(r) == r

\* ContextSwitcher::ContextSwitcher(newContext): the context current after
\* the constructor, given the one current before it.
ContextSwitcher_ctor(m_oldContext, m_newContext) ==
    IF m_newContext # 0 /\ m_newContext # m_oldContext
    THEN m_newContext
    ELSE m_oldContext

\* ~ContextSwitcher that leaves the new context current.
ContextSwitcher_dtor_keep(cur, m_oldContext, m_newContext) == cur

\* ContextSwitcher::~ContextSwitcher: the context current after the
\* destructor, given the one current (cur) when the scope ends.
ContextSwitcher_dtor(cur, m_oldContext, m_newContext) ==
    IF m_newContext # m_oldContext
    THEN IF m_oldContext # 0 THEN m_oldContext
         ELSE IF m_newContext # 0 THEN 0
         ELSE cur
    ELSE cur

\* The context current after a Delete(cache) or DeleteAllResources of
\* renderer r that was entered with cur current: the early return when
\* m_context is null, else the scope of the ContextSwitcher.
afterSwitcher(cur, r) ==
    IF ~rend[r].ctx THEN cur
    ELSE ContextSwitcher_dtor(ContextSwitcher_ctor(cur, r), cur, r)

\* The context current after Delete was called through each renderer of rs
\* in turn, in the key order of the slot map.
RECURSIVE afterSwitchers(_, _)
afterSwitchers(cur, rs) ==
    IF rs = {} THEN cur
    ELSE LET r == CHOOSE x \in rs : \A y \in rs : x <= y IN
         afterSwitchers(afterSwitcher(cur, r), rs \ {r})

\* Delete that never destroys the cache object.
Delete_skip(cs, r, c) == [caches |-> cs, logged |-> {LC_Debug}]

\* RendererOGL::Delete(XCache*) applied to the cache table cs.
Delete(cs, r, c) ==
    IF ~rend[r].ctx
    THEN [caches |-> cs, logged |-> {LC_Debug}]
    ELSE [caches |-> [cs EXCEPT ![c] = destroyCache(@, ContextSwitcher(r) = cs[c].rid)],
          logged |-> {}]

\* Renderer::runDeleteOnAllResources: Delete on every tracked cache still alive.
runDeleteOnAllResources(r) ==
    [c \in DOMAIN caches |->
        IF c \in rend[r].tracked /\ caches[c].alive
        THEN Delete(caches, r, c).caches[c]
        ELSE caches[c]]

\* ------------------------------------------------------------ GL state stack
\* The GL state of a fresh context.
DefaultGL ==
    [viewport |-> 0, draw |-> 0, read |-> 0,
     feat |-> [e \in Features |-> FALSE],
     active |-> 0,
     tex |-> [u \in Units |-> [t \in Targets |-> 0]],
     depthMask |-> TRUE, program |-> 0]

\* glGenFramebuffers: an unused framebuffer name.
glGenFramebuffers(used) ==
    CHOOSE n \in 1..(Cardinality(used) + 1) :
        n \notin used /\ \A m \in 1..(n - 1) : m \in used

\* glBindTexture(target, texture): binds on the active texture unit.
glBindTexture(g, target, texture) ==
    [g EXCEPT !.tex[g.active][target] = texture]

\* glActiveTexture(unit)
glActiveTexture(g, unit) == [g EXCEPT !.active = unit]

\* glDeleteFramebuffers: a deleted framebuffer that is bound is unbound.
glDeleteFramebuffers(g, fb) ==
    [g EXCEPT !.draw = IF @ = fb THEN 0 ELSE @,
              !.read = IF @ = fb THEN 0 ELSE @]

\* The StateStorage that pushState fills from the glGet* queries.
StateStorage(g, newFramebuffer) ==
    [m_viewport |-> g.viewport,
     m_drawFramebuffer |-> g.draw,
     m_readFramebuffer |-> g.read,
     m_depthMask |-> g.depthMask,
     m_program |-> g.program,
     m_features |-> g.feat,
     m_textureBindings |-> g.tex[g.active],
     m_activeTexture |-> g.active,
     m_newFramebuffer |-> newFramebuffer,
     pushedAt |-> g]

\* The restoring half of popState, in the order of the code.
restoreState(g, lastState) ==
    LET g1 == [g EXCEPT !.feat = lastState.m_features,
                        !.viewport = lastState.m_viewport,
                        !.read = lastState.m_readFramebuffer,
                        !.draw = lastState.m_drawFramebuffer]
        g2 == [g1 EXCEPT !.tex[g1.active] = lastState.m_textureBindings]
        g3 == glActiveTexture(g2, lastState.m_activeTexture)
        g4 == [g3 EXCEPT !.depthMask = lastState.m_depthMask,
                         !.program = lastState.m_program]
    IN IF lastState.m_newFramebuffer # 0
       THEN glDeleteFramebuffers(g4, lastState.m_newFramebuffer)
       ELSE g4

\* The depth test of pushState.
stackTooBig(depth) == depth > MaxStateStack

\* pushState that generates and binds the framebuffer before the depth test.
pushState_early(withFramebuffer) ==
    /\ withFramebuffer => Cardinality(fbs) < MaxFramebuffers
    /\ LET fb == IF withFramebuffer THEN glGenFramebuffers(fbs) ELSE 0 IN
       /\ fbs' = IF fb # 0 THEN fbs \cup {fb} ELSE fbs
       /\ gl' = IF fb # 0 THEN [gl EXCEPT !.draw = fb, !.read = fb] ELSE gl
       /\ IF stackTooBig(Len(stateStorage))
          THEN /\ logged' = {LC_Critical}
               /\ lastOp' = Op("pushStateRejected", 0, 0, NoEntry, FALSE, 0, FALSE)
               /\ UNCHANGED stateStorage
          ELSE /\ stateStorage' = Append(stateStorage, StateStorage(gl, fb))
               /\ logged' = {}
               /\ lastOp' = Op("pushState", 0, 0, NoEntry, FALSE, 0, FALSE)
    /\ UNCHANGED glCalls
    /\ UNCHANGED <<cacheVars, frameVars>>

\* RendererOGL::pushState(withFramebuffer)
pushState(withFramebuffer) ==
    /\ withFramebuffer => Cardinality(fbs) < MaxFramebuffers
    /\ IF stackTooBig(Len(stateStorage))
       THEN /\ logged' = {LC_Critical}
            /\ lastOp' = Op("pushStateRejected", 0, 0, NoEntry, FALSE, 0, FALSE)
            /\ UNCHANGED <<gl, fbs, stateStorage>>
       ELSE LET fb == IF withFramebuffer THEN glGenFramebuffers(fbs) ELSE 0 IN
            /\ stateStorage' = Append(stateStorage, StateStorage(gl, fb))
            /\ fbs' = IF fb # 0 THEN fbs \cup {fb} ELSE fbs
            /\ gl' = IF fb # 0 THEN [gl EXCEPT !.draw = fb, !.read = fb] ELSE gl
            /\ logged' = {}
            /\ lastOp' = Op("pushState", 0, 0, NoEntry, FALSE, 0, FALSE)
    /\ UNCHANGED glCalls
    /\ UNCHANGED <<cacheVars, frameVars>>

\* popState that leaves the framebuffer of the popped frame allocated.
popState_leak ==
    /\ IF stateStorage = << >>
       THEN /\ logged' = {LC_Critical}
            /\ lastOp' = Op("popStateEmpty", 0, 0, NoEntry, FALSE, 0, FALSE)
            /\ UNCHANGED <<gl, fbs, stateStorage>>
       ELSE LET lastState == stateStorage[Len(stateStorage)] IN
            /\ gl' = restoreState(gl, [lastState EXCEPT !.m_newFramebuffer = 0])
            /\ fbs' = fbs
            /\ stateStorage' = SubSeq(stateStorage, 1, Len(stateStorage) - 1)
            /\ logged' = {}
            /\ lastOp' = Op("popState", 0, 0, NoEntry, FALSE, 0, FALSE)
    /\ UNCHANGED glCalls
    /\ UNCHANGED <<cacheVars, frameVars>>

\* RendererOGL::popState; the record of the call names the framebuffer it
\* deleted.
popState ==
    /\ IF stateStorage = << >>
       THEN /\ logged' = {LC_Critical}
            /\ lastOp' = Op("popStateEmpty", 0, 0, NoEntry, FALSE, 0, FALSE)
            /\ UNCHANGED <<gl, fbs, stateStorage>>
       ELSE LET lastState == stateStorage[Len(stateStorage)] IN
            /\ gl' = restoreState(gl, lastState)
            /\ fbs' = fbs \ {lastState.m_newFramebuffer}
            /\ stateStorage' = SubSeq(stateStorage, 1, Len(stateStorage) - 1)
            /\ logged' = {}
            /\ lastOp' = Op("popState", 0, 0, lastState.m_newFramebuffer, FALSE, 0, FALSE)
    /\ UNCHANGED glCalls
    /\ UNCHANGED <<cacheVars, frameVars>>

\* The GL calls the renderer makes between a pushState and its popState.
GLCalls ==
    [fn : {"glViewport"}, arg : Viewports, target : {"-"}]
    \cup [fn : {"glBindFramebuffer"}, arg : {0} \cup fbs,
          target : {"GL_FRAMEBUFFER", "GL_DRAW_FRAMEBUFFER", "GL_READ_FRAMEBUFFER"}]
    \cup [fn : {"glEnable"}, arg : {0}, target : Features]
    \cup [fn : {"glDisable"}, arg : {0}, target : Features]
    \cup [fn : {"glActiveTexture"}, arg : Units, target : {"-"}]
    \cup [fn : {"glBindTexture"}, arg : TextureNames, target : Targets]
    \cup [fn : {"glDepthMask"}, arg : {0, 1}, target : {"-"}]
    \cup [fn : {"glUseProgram"}, arg : ProgramNames, target : {"-"}]

\* The effect of one GL call on the GL state.
applyGL(g, call) ==
    IF call.fn = "glViewport" THEN [g EXCEPT !.viewport = call.arg]
    ELSE IF call.fn = "glBindFramebuffer"
    THEN [g EXCEPT !.draw = IF call.target = "GL_READ_FRAMEBUFFER" THEN @ ELSE call.arg,
                   !.read = IF call.target = "GL_DRAW_FRAMEBUFFER" THEN @ ELSE call.arg]
    ELSE IF call.fn = "glEnable" THEN [g EXCEPT !.feat[call.target] = TRUE]
    ELSE IF call.fn = "glDisable" THEN [g EXCEPT !.feat[call.target] = FALSE]
    ELSE IF call.fn = "glActiveTexture" THEN glActiveTexture(g, call.arg)
    ELSE IF call.fn = "glBindTexture" THEN glBindTexture(g, call.target, call.arg)
    ELSE IF call.fn = "glDepthMask" THEN [g EXCEPT !.depthMask = (call.arg = 1)]
    ELSE [g EXCEPT !.program = call.arg]

\* One GL call that changes the state.
glCall(call) ==
    /\ glCalls < MaxGLCalls
    /\ applyGL(gl, call) # gl
    /\ gl' = applyGL(gl, call)
    /\ glCalls' = glCalls + 1
    /\ logged' = {}
    /\ lastOp' = Op("glCall", 0, 0, NoEntry, FALSE, 0, FALSE)
    /\ UNCHANGED <<fbs, stateStorage>>
    /\ UNCHANGED <<cacheVars, frameVars>>

\* ------------------------------------------------------------ the frame
\* The framebuffer names: 0 is the main framebuffer.
Framebuffers == 0..(MaxFramebuffers + 1)

\* QMatrix4x4(): the identity matrix.
Identity == <<"identity", 0>>

\* The GPU objects the renderer creates for itself.
ObjectKinds ==
    {"sceneUBO", "brdfLUT", "oitFBO", "oitAccumTexture", "oitRevealageTexture",
     "oitDepthRBO"}

\* RendererOGL::RendererOGL: the lazily created members are all zero/null.
\* allocated counts, by kind, the GPU objects generated and not deleted.
\* lutRendered tells whether the texture m_brdfLUT names holds the rendered
\* lookup table.
NoMembers ==
    [m_oitFBO |-> 0, m_oitAccumTexture |-> 0, m_oitRevealageTexture |-> 0,
     m_sceneUBO |-> 0, m_lineMaterial |-> FALSE, m_skyboxMaterial |-> FALSE,
     m_brdfCalculated |-> FALSE,
     m_brdfLUT |-> 0, m_sceneData |-> [lights |-> 0, cameraPos |-> 0],
     m_skyboxView |-> Identity, m_skyboxProj |-> Identity,
     allocated |-> [kind \in ObjectKinds |-> 0], lutRendered |-> FALSE]

\* One more GPU object of the kind is allocated.
allocate(mem, kind) == [mem EXCEPT !.allocated[kind] = @ + 1]

\* One GPU object of the kind is deleted.
release(mem, kind) == [mem EXCEPT !.allocated[kind] = @ - 1]

\* A null Group pointer.
NullGroup ==
    [null |-> TRUE, hidden |-> FALSE, mesh |-> FALSE, mat |-> FALSE,
     matProp |-> FALSE, lineGroup |-> FALSE, cullOff |-> FALSE]

\* The groups handed to Draw: the Hidden flag, which of mesh, material,
\* materialProperties and lineGroup are non-null, and whether the mesh asks
\* for DisableCulling or the material or its properties are translucent.
\* The hidden groups are those that have everything.
Groups ==
    {NullGroup} \cup
    {g \in [null : {FALSE}, hidden : BOOLEAN, mesh : BOOLEAN, mat : BOOLEAN,
            matProp : BOOLEAN, lineGroup : BOOLEAN, cullOff : BOOLEAN] :
        /\ g.cullOff => (g.mesh /\ g.mat /\ g.matProp)
        /\ g.hidden => (g.mesh /\ g.mat /\ g.matProp /\ g.lineGroup /\ g.cullOff)}

\* No Draw was made yet.
NoDraw == [group |-> NullGroup, passes |-> << >>, builds |-> {}, calls |-> << >>]

\* One pixel of the cleared OIT buffers, before the composite has run.
ClearedPixel ==
    [accum |-> <<0, 0, 0>>, revealage |-> 0, draws |-> << >>, texCoord |-> 0,
     out |-> <<0, 0, 0, 0>>, composited |-> FALSE]

\* Colour and alpha values are fixed-point numbers in units of the shader's
\* epsilon, 0.0001: Epsilon is 0.0001 and One is 1.0.
Epsilon == 1
One == 10000

\* The (colour, alpha) pairs a translucent draw adds to a pixel, and the
\* texture coordinates of a pixel of the screen quad.
Colours == {<<0, 0, 0>>, <<2000, 4000, 6000>>, <<4000, 2000, 0>>}
Alphas == {0, 5000}
TexCoords == {0, 5000, 10000}

\* max() of GLSL
max(a, b) == IF a >= b THEN a ELSE b

\* Blending with the factors GL_ONE, GL_ONE: source + destination.
blendOneOne(dst, src) == dst + src

\* main() of OITMaterial.frag, statement by statement: the RGBA written for a
\* pixel whose accumulation texel is colorAccum, whose revealage texel is
\* alphaAccum and whose texture coordinate is TexCoord_x.
OITMaterial_main(colorAccum, alphaAccum, TexCoord_x) ==
    LET rgb == [k \in 1..3 |-> (colorAccum[k] * One) \div max(alphaAccum, Epsilon)]
        fragColor1 == <<rgb[1], rgb[2], rgb[3], 0>>
        fragColor2 == [fragColor1 EXCEPT ![4] = alphaAccum]
        fragColor3 == [fragColor2 EXCEPT ![1] = TexCoord_x]
    IN fragColor3

\* The position of the camera and the set of lights closest to a group, both
\* different from what m_sceneData holds at first.
Cameras == {1, 2}

\* Camera::getView and Camera::getProjection of a camera in state cam.
getView(cam) == <<"view", cam>>
getProjection(cam) == <<"projection", cam>>

\* BeginDrawing that keeps the matrices of the first frame.
captureCamera_first(mem, cam) ==
    IF mem.m_skyboxView # Identity THEN mem
    ELSE [mem EXCEPT !.m_skyboxView = getView(cam),
                     !.m_skyboxProj = getProjection(cam)]

\* m_skyboxView = cam.getView(); m_skyboxProj = cam.getProjection();
captureCamera(mem, cam) ==
    [mem EXCEPT !.m_skyboxView = getView(cam),
                !.m_skyboxProj = getProjection(cam)]
Lights == {1}

\* The renderer of the View, whose frames are followed.
FrameRenderer == CHOOSE r \in RendererIDs : \A q \in RendererIDs : r <= q

\* The material of the groups that are drawn.
GroupMaterial == CHOOSE res \in Resources : Kind(res) = "material"

\* QOpenGLShaderProgram::programId of the program linked for a material.
programId(material) ==
    CASE material = "group" -> 1
      [] material = "line" -> 2
      [] material = "skybox" -> 3
      [] material = "oit" -> 4
      [] material = "brdf" -> 5

\* The texture names glGenTextures and QOpenGLTexture hand out.
textureId(texture) ==
    CASE texture = "brdfLUT" -> 1
      [] texture = "oitAccum" -> 2
      [] texture = "oitRevealage" -> 3
      [] texture = "cubemap" -> 4

\* glEnable / glDisable
glEnable(g, e) == [g EXCEPT !.feat[e] = TRUE]
glDisable(g, e) == [g EXCEPT !.feat[e] = FALSE]

\* glBindFramebuffer(GL_FRAMEBUFFER, fb)
glBindFramebuffer(g, fb) == [g EXCEPT !.draw = fb, !.read = fb]

\* glUseProgram / QOpenGLShaderProgram::bind and release
glUseProgram(g, program) == [g EXCEPT !.program = program]

\* RendererOGL::buildMaterialCache(material) for a material resource: the
\* slot map, cache objects and tracking collection after it, and whether
\* update() ran and linked a program.
buildMaterialCache(r, res) ==
    LET mc == getOrEmplaceCache(res, r, "OGL") IN
    IF mc.threw
    THEN [threw |-> TRUE, ptr |-> NoEntry, created |-> FALSE, updated |-> FALSE,
          linked |-> FALSE, caches |-> mc.caches, slot |-> mc.slot, rend |-> rend]
    ELSE LET c == mc.ptr
             dirty == isDirty(mc.caches[c])
             after == IF dirty THEN [mc.caches EXCEPT ![c] = update(res, @)]
                      ELSE mc.caches
         IN [threw |-> FALSE, ptr |-> c, created |-> mc.created, updated |-> dirty,
             linked |-> dirty /\ after[c].gpu,
             caches |-> after, slot |-> mc.slot,
             rend |-> IF registers(mc.created) THEN addToCaches(r, c) ELSE rend]

\* MaterialCacheOGL::update of a standard material when its cache is dirty:
\* the program is bound and released, which leaves no program current.
buildStandard(g, dirty) ==
    IF dirty THEN glUseProgram(g, 0) ELSE g

\* MaterialCacheOGL::install: binds the program when the cache has one.
install(g, hasProgram, program) ==
    IF ~hasProgram THEN g ELSE glUseProgram(g, program)

\* XCacheOGL::render: one draw call, run by the program that is current.
render(g, pass, ph) ==
    [pass |-> pass, program |-> g.program, blend |-> g.feat["GL_BLEND"],
     fb |-> g.draw, phase |-> ph]

\* MeshCacheOGL::render(r, gl, model, view, proj): the draw call with the
\* matrices handed to it.
renderWith(g, pass, ph, model, view, proj) ==
    [model |-> model, view |-> view, proj |-> proj] @@ render(g, pass, ph)

\* The layers of framebuffer contents after the draw calls in calls.
paint(px, calls) ==
    [fb \in Framebuffers |->
        px[fb] \cup {calls[i].phase : i \in {j \in DOMAIN calls : calls[j].fb = fb}}]

\* glClear(GL_COLOR_BUFFER_BIT | GL_DEPTH_BUFFER_BIT) on the bound draw framebuffer.
glClear(px, g) == [px EXCEPT ![g.draw] = {}]

\* ------------------------------------------------------------------ Entity
\* The values given to setPosition, setRotation and setScale; rotation 0 is
\* the identity quaternion.
Positions == {0, 1}
Rotations == {0, 1}
Scales == {1, 2}

\* setToIdentity(); rotate(m_rotation); scale(m_scale); translate(m_position)
Matrix(rot, scale, pos) == [rotate |-> rot, scale |-> scale, translate |-> pos]

\* Entity::Entity: position and rotation default-constructed, scale one,
\* the matrix dirty and an identity. called and changed are history: a
\* modelMatrix() call was made, and a setter has changed a value since.
NewEntity ==
    [m_position |-> 0, m_rotation |-> 0, m_scale |-> 1,
     m_matrixDirty |-> TRUE, m_matrix |-> Matrix(0, 1, 0),
     called |-> FALSE, changed |-> FALSE]

\* A setter that stores the value and leaves the dirty flag alone.
setField_noDirty(e, field, v) ==
    IF e[field] = v THEN e ELSE [e EXCEPT ![field] = v]

\* Entity::setPosition / setRotation / setScale: nothing happens when the
\* value is the current one.
setField(e, field, v) ==
    IF e[field] = v THEN e
    ELSE [e EXCEPT ![field] = v, !.m_matrixDirty = TRUE]

\* One call of a setter of the entity.
setTransform(field, v) ==
    /\ entity' = [setField(entity, field, v)
                    EXCEPT !.changed = @ \/ (entity[field] # v)]
    /\ lastOp' = [field |-> field, value |-> v]
                  @@ Op("setTransform", 0, 0, NoEntry, FALSE, 0, FALSE)
    /\ logged' = {}
    /\ UNCHANGED <<cacheVars, stackVars>>
    /\ UNCHANGED <<phase, members, blendFunc, ubo, pixels, drawn, oit>>

\* Entity::modelMatrix(): the matrix is recomputed when the flag is set;
\* the call's record holds the matrix returned and whether it was recomputed.
modelMatrix ==
    /\ \E m \in {IF entity.m_matrixDirty
                  THEN Matrix(entity.m_rotation, entity.m_scale, entity.m_position)
                  ELSE entity.m_matrix} :
          /\ entity' = [entity EXCEPT !.m_matrixDirty = FALSE, !.m_matrix = m,
                                      !.called = TRUE, !.changed = FALSE]
          /\ lastOp' = [matrix |-> m]
                        @@ Op("modelMatrix", 0, 0, NoEntry, FALSE,
                              IF entity.m_matrixDirty THEN 1 ELSE 0, FALSE)
    /\ logged' = {}
    /\ UNCHANGED <<cacheVars, stackVars>>
    /\ UNCHANGED <<phase, members, blendFunc, ubo, pixels, drawn, oit>>

\* ------------------------------------------------------------------ Init
Init ==
    /\ resAlive = [res \in Resources |-> TRUE]
    /\ shader = [res \in Resources |-> "ok"]
    /\ slot = [res \in Resources |-> [id \in RendererIDs |-> NoEntry]]
    /\ caches = << >>
    /\ rend = [id \in RendererIDs |-> [state |-> "alive", ctx |-> TRUE, tracked |-> {}, adds |-> 0]]
    /\ curCtx = 0
    /\ lastOp = Op("init", 0, 0, NoEntry, FALSE, 0, FALSE)
    /\ logged = {}
    /\ gl = DefaultGL
    /\ fbs = {}
    /\ stateStorage = << >>
    /\ glCalls = 0
    /\ phase = "idle"
    /\ members = NoMembers
    /\ blendFunc = <<"GL_ONE", "GL_ZERO">>
    /\ ubo = [lights |-> 0, cameraPos |-> 0]
    /\ pixels = [fb \in Framebuffers |-> {}]
    /\ drawn = NoDraw
    /\ oit = ClearedPixel
    /\ entity = NewEntity

\* --------------------------------------------------------------- actions
\* RendererOGL::buildXCache(resource), called with the renderer's context current.
buildCache(r, res) ==
    /\ rend[r].state = "alive" /\ rend[r].ctx /\ curCtx = r
    /\ resAlive[res]
    /\ LET mc == getOrEmplaceCache(res, r, "OGL")
           prevOp == IF lastOp.op = "build" /\ lastOp.res = res /\ lastOp.rid = r
                     THEN "build"
                     ELSE IF lastOp.op = "invalidate" /\ lastOp.res = res
                             /\ lastOp.rid \in {r, ALL}
                     THEN "invalidate"
                     ELSE IF lastOp.op \in {"setShader", "setImage"} /\ lastOp.res = res
                     THEN lastOp.op ELSE "-"
           prevPtr == IF prevOp = "build" THEN lastOp.ptr ELSE -1
           prevUpdates == IF prevOp = "build" THEN lastOp.updates ELSE 0
       IN
       /\ mc.created => Len(caches) < MaxCaches
       /\ slot' = mc.slot
       /\ IF mc.threw
          THEN /\ caches' = mc.caches
               /\ UNCHANGED rend
               /\ lastOp' = [Op("build", res, r, NoEntry, FALSE, 0, TRUE)
                               EXCEPT !.prevOp = prevOp, !.prevPtr = prevPtr,
                                      !.prevUpdates = prevUpdates]
          ELSE LET c == mc.ptr
                   dirty == isDirty(mc.caches[c])
               IN
               /\ caches' = IF dirty
                            THEN [mc.caches EXCEPT ![c] = update(res, @)]
                            ELSE mc.caches
               /\ rend' = IF registers(mc.created) THEN addToCaches(r, c) ELSE rend
               /\ lastOp' = [Op("build", res, r, c, mc.created, IF dirty THEN 1 ELSE 0, FALSE)
                               EXCEPT !.prevOp = prevOp, !.prevPtr = prevPtr,
                                      !.prevUpdates = prevUpdates]
    /\ logged' = {}
    /\ UNCHANGED <<resAlive, shader, curCtx>>
    /\ UNCHANGED <<stackVars, frameVars>>

\* Another backend that shares the rendererID asks the resource for its own
\* concrete cache type: getOrEmplaceXCache<Other>(rendererID).
emplaceOther(rendererID, res) ==
    /\ resAlive[res]
    /\ LET mc == getOrEmplaceCache(res, rendererID, "Other") IN
       /\ mc.created => Len(caches) < MaxCaches
       /\ caches' = mc.caches
       /\ slot' = mc.slot
       /\ lastOp' = Op("emplaceOther", res, rendererID, mc.ptr, mc.created, 0, mc.threw)
    /\ logged' = {}
    /\ UNCHANGED <<resAlive, shader, rend, curCtx>>
    /\ UNCHANGED <<stackVars, frameVars>>

\* invalidateCache that takes every rendererID for ALL.
selects_any(rendererID, id) == TRUE

\* The entries invalidateCache(rendererID) visits: all of them for ALL,
\* else the one found under rendererID.
selects(rendererID, id) == rendererID = ALL \/ rendererID = id

\* Resource::invalidateCache(rendererID = ALL)
invalidateCache(res, rendererID) ==
    /\ resAlive[res]
    /\ LET hit(id) == selects(rendererID, id) /\ slot[res][id] # NoEntry IN
       /\ slot' = [slot EXCEPT ![res] =
                     [id \in RendererIDs |->
                        IF hit(id) /\ isNull(slot[res][id]) THEN NoEntry ELSE slot[res][id]]]
       /\ caches' = [c \in DOMAIN caches |->
                       IF /\ caches[c].alive
                          /\ \E id \in RendererIDs : hit(id) /\ slot[res][id] = c
                       THEN markDirty(caches[c]) ELSE caches[c]]
    /\ lastOp' = Op("invalidate", res, rendererID, NoEntry, FALSE, 0, FALSE)
    /\ logged' = {}
    /\ UNCHANGED <<resAlive, shader, rend, curCtx>>
    /\ UNCHANGED <<stackVars, frameVars>>

\* Material::setShader
setShader(res, sh) ==
    /\ resAlive[res] /\ Kind(res) = "material"
    /\ shader[res] # sh
    /\ shader' = [shader EXCEPT ![res] = sh]
    /\ lastOp' = Op("setShader", res, 0, NoEntry, FALSE, 0, FALSE)
    /\ logged' = {}
    /\ UNCHANGED <<resAlive, slot, caches, rend, curCtx>>
    /\ UNCHANGED <<stackVars, frameVars>>

\* Texture::setImage: m_image is replaced; no cache is touched.
setImage(res) ==
    /\ resAlive[res] /\ Kind(res) = "texture"
    /\ lastOp' = Op("setImage", res, 0, NoEntry, FALSE, 0, FALSE)
    /\ logged' = {}
    /\ UNCHANGED <<cacheVars, stackVars, frameVars>>

\* RendererOGL::Delete(cache) called on one of this renderer's caches.
DeleteCache(r, c) ==
    /\ rend[r].state = "alive"
    /\ c \in DOMAIN caches /\ caches[c].alive /\ caches[c].rid = r
    /\ LET d == Delete(caches, r, c) IN
       /\ caches' = d.caches
       /\ logged' = d.logged
    /\ curCtx' = afterSwitcher(curCtx, r)
    /\ lastOp' = [deleted |-> c, of |-> caches[c].res]
                  @@ Op("Delete", 0, r, NoEntry, FALSE, 0, FALSE)
    /\ UNCHANGED <<resAlive, shader, slot, rend>>
    /\ UNCHANGED <<stackVars, frameVars>>

\* Resource::~Resource (Texture::~Texture, Cubemap::~Cubemap, Material::~Material):
\* Delete through the renderer of every live slot entry, then ~QObject
\* destroys the children that are left.
destroyResource(res) ==
    /\ resAlive[res]
    /\ LET live == {id \in RendererIDs : slot[res][id] # NoEntry /\ ~isNull(slot[res][id])}
           found == {id \in live : getRenderer(id) # NoEntry}
           afterDelete == [c \in DOMAIN caches |->
                              IF \E id \in found : slot[res][id] = c
                              THEN Delete(caches, caches[c].rid, c).caches[c]
                              ELSE caches[c]]
           afterQObject == [c \in DOMAIN caches |->
                              IF afterDelete[c].alive /\ afterDelete[c].res = res
                              THEN destroyCache(afterDelete[c],
                                                rend[afterDelete[c].rid].ctx
                                                /\ curCtx = afterDelete[c].rid)
                              ELSE afterDelete[c]]
       IN
       /\ caches' = afterQObject
       /\ logged' = (IF live \ found # {} THEN {LC_Info} ELSE {})
                    \cup (IF \E id \in found : ~rend[id].ctx THEN {LC_Debug} ELSE {})
       /\ curCtx' = afterSwitchers(curCtx, found)
    /\ resAlive' = [resAlive EXCEPT ![res] = FALSE]
    /\ lastOp' = Op("destroyResource", 0, 0, NoEntry, FALSE, 0, FALSE)
    /\ UNCHANGED <<shader, slot, rend>>
    /\ UNCHANGED <<stackVars, frameVars>>

\* RendererOGL::DeleteAllResources
DeleteAllResources(r) ==
    IF ~rend[r].ctx
    THEN [caches |-> caches, logged |-> {LC_Debug}]
    ELSE [caches |-> runDeleteOnAllResources(r), logged |-> {}]

\* glDeleteTextures(1, &texture): the name is unbound where it was bound.
glDeleteTextures(g, texture) ==
    [g EXCEPT !.tex = [u \in Units |-> [t \in Targets |->
                          IF g.tex[u][t] = texture THEN 0 ELSE g.tex[u][t]]]]

\* DeleteAllResources that keeps the flag of the rendered BRDF LUT.
releaseMembers_keepFlag(mem) ==
    LET m1 == IF mem.m_sceneUBO # 0
              THEN release([mem EXCEPT !.m_sceneUBO = 0], "sceneUBO") ELSE mem
        m2 == IF m1.m_brdfLUT # 0
              THEN release([m1 EXCEPT !.m_brdfLUT = 0, !.lutRendered = FALSE],
                           "brdfLUT")
              ELSE m1
    IN IF m2.m_oitFBO # 0
       THEN release([m2 EXCEPT !.m_oitFBO = 0], "oitFBO") ELSE m2

\* The end of RendererOGL::DeleteAllResources: the scene UBO, the BRDF LUT
\* and the OIT framebuffer are deleted and zeroed, m_brdfCalculated is reset.
releaseMembers(mem) ==
    LET m1 == IF mem.m_sceneUBO # 0
              THEN release([mem EXCEPT !.m_sceneUBO = 0], "sceneUBO") ELSE mem
        m2 == IF m1.m_brdfLUT # 0
              THEN release([m1 EXCEPT !.m_brdfLUT = 0, !.lutRendered = FALSE],
                           "brdfLUT")
              ELSE m1
        m3 == IF m2.m_oitFBO # 0
              THEN release([m2 EXCEPT !.m_oitFBO = 0], "oitFBO") ELSE m2
    IN [m3 EXCEPT !.m_brdfCalculated = FALSE]

\* RendererOGL::DeleteAllResources called between two frames on the
\* renderer of the View, which stays alive.
DeleteAllResourcesOf(r) ==
    /\ rend[r].state = "alive" /\ r = FrameRenderer
    /\ phase = "idle"
    /\ \E d \in {DeleteAllResources(r)} :
          /\ caches' = d.caches
          /\ logged' = d.logged
    /\ curCtx' = afterSwitcher(curCtx, r)
    /\ members' = IF rend[r].ctx THEN releaseMembers(members) ELSE members
    /\ ubo' = IF rend[r].ctx THEN [lights |-> 0, cameraPos |-> 0] ELSE ubo
    /\ gl' = IF rend[r].ctx
             THEN glDeleteFramebuffers(glDeleteTextures(gl, members.m_brdfLUT),
                                       members.m_oitFBO)
             ELSE gl
    /\ lastOp' = Op("DeleteAllResources", 0, r, NoEntry, FALSE, 0, FALSE)
    /\ UNCHANGED <<resAlive, shader, slot, rend>>
    /\ UNCHANGED <<fbs, stateStorage, glCalls>>
    /\ UNCHANGED <<phase, blendFunc, pixels, drawn, oit, entity>>

\* RendererOGL::~RendererOGL
destroyRenderer(r) ==
    /\ rend[r].state = "alive"
    /\ LET d == DeleteAllResources(r) IN
       /\ caches' = d.caches
       /\ logged' = d.logged
    /\ rend' = [rend EXCEPT ![r].state = IF rend[r].ctx THEN "deadCtx" ELSE "deadNoCtx"]
    /\ curCtx' = afterSwitcher(curCtx, r)
    /\ lastOp' = Op("destroyRenderer", 0, r, NoEntry, FALSE, 0, FALSE)
    /\ UNCHANGED <<resAlive, shader, slot>>
    /\ UNCHANGED <<stackVars, frameVars>>

\* The QOpenGLContext of a renderer is destroyed: m_context becomes null.
contextLost(r) ==
    /\ rend[r].ctx
    /\ rend' = [rend EXCEPT ![r].ctx = FALSE]
    /\ curCtx' = IF curCtx = r THEN 0 ELSE curCtx
    /\ lastOp' = Op("contextLost", 0, 0, NoEntry, FALSE, 0, FALSE)
    /\ logged' = {}
    /\ UNCHANGED <<resAlive, shader, slot, caches>>
    /\ UNCHANGED <<stackVars, frameVars>>

\* QOpenGLContext::makeCurrent / doneCurrent by the windowing code.
makeCurrent(c) ==
    /\ c # curCtx
    /\ c # 0 => rend[c].ctx
    /\ curCtx' = c
    /\ lastOp' = Op("makeCurrent", 0, 0, NoEntry, FALSE, 0, FALSE)
    /\ logged' = {}
    /\ UNCHANGED <<resAlive, shader, slot, caches, rend>>
    /\ UNCHANGED <<stackVars, frameVars>>

\* QOpenGLShaderProgram::uniformLocation(name): -1 for a name the program
\* does not have.
uniformLocation(name) == IF name = "uUnknown" THEN -1 ELSE 0

\* MaterialCacheOGL::applyUniform(r, gl, name, value) on the material cache
\* c of the renderer; set tells whether setUniformValue's switch was reached.
applyUniform(r, c, name, value) ==
    /\ rend[r].state = "alive" /\ rend[r].ctx /\ curCtx = r
    /\ c \in DOMAIN caches /\ caches[c].alive /\ caches[c].rid = r
    /\ Kind(caches[c].res) = "material"
    /\ \E uci \in {caches[c].m_uniformCachedInfo[name]} :
       \E reached \in {/\ caches[c].gpu
                       /\ uniformLocation(name) # -1
                       /\ uci # value} :
          /\ caches' = IF reached
                       THEN [caches EXCEPT ![c].m_uniformCachedInfo[name] = value]
                       ELSE caches
          /\ lastOp' = [name |-> name, value |-> value, prev |-> uci, set |-> reached]
                        @@ Op("applyUniform", caches[c].res, r, c, FALSE, 0, FALSE)
    /\ logged' = {}
    /\ UNCHANGED <<resAlive, shader, slot, rend, curCtx>>
    /\ UNCHANGED <<stackVars, frameVars>>

\* Draw that takes a hidden group for a visible one.
skips_null(g) == g.null

\* The early return of Draw: a null group, or the Hidden flag.
skips(g) == g.null \/ g.hidden

\* Draw that runs the geometry pass without materialProperties.
runsGeometry_noProps(g) == g.mesh /\ g.mat

\* The condition of the geometry pass of Draw.
runsGeometry(g) == g.mesh /\ g.mat /\ g.matProp

\* The condition of the line pass of Draw.
runsLine(g) == g.lineGroup

\* RendererOGL::getBrdfLUT: the texture name, generated on first use.
getBrdfLUT(mem) ==
    IF mem.m_brdfLUT = 0 THEN textureId("brdfLUT") ELSE mem.m_brdfLUT

\* A line pass that takes the group's material whenever there is one.
usesOwnMaterial_any(g) == g.mat

\* The line pass of Draw: if(!mesh && mat) the group's material, else
\* m_lineMaterial.
usesOwnMaterial(g) == ~g.mesh /\ g.mat

\* Draw that uploads the scene data for every geometry pass.
memcmp_always(newSceneData, sceneData) == TRUE

\* std::memcmp(&m_sceneData, &newSceneData, sizeof(m_sceneData)) is non-zero.
memcmp(newSceneData, sceneData) == newSceneData # sceneData

\* RendererOGL::Draw(g, drawInfo), between BeginDrawing and EndDrawing, for a
\* group whose materialProperties carry no texture. A line pass that takes
\* m_lineMaterial while it is null calls buildMaterialCache(nullptr), a call
\* through a null pointer: the process either stops there (crash) or goes on
\* as if the material were there.
Draw(g, lights) ==
    /\ phase \in {"begun", "opaque", "translucent"}
    /\ rend[FrameRenderer].state = "alive" /\ rend[FrameRenderer].ctx
    /\ curCtx = FrameRenderer
    /\ lastOp' = Op("Draw", 0, 0, NoEntry, FALSE, 0, FALSE)
    /\ UNCHANGED <<resAlive, shader, curCtx>>
    /\ UNCHANGED <<fbs, stateStorage, glCalls>>
    /\ UNCHANGED <<blendFunc, oit, entity>>
    /\ LET geo == ~skips(g) /\ runsGeometry(g)
           line == ~skips(g) /\ runsLine(g)
           ownLine == line /\ usesOwnMaterial(g)
           usesMat == geo \/ ownLine
           cullOff == geo /\ g.cullOff
           wasFaceCullingDisabled == cullOff \/ line
           newSceneData == [members.m_sceneData EXCEPT !.lights = lights]
           refresh == geo /\ memcmp(newSceneData, members.m_sceneData)
           lut == getBrdfLUT(members)
       IN
       \E mb \in {IF usesMat THEN buildMaterialCache(FrameRenderer, GroupMaterial)
                  ELSE [threw |-> FALSE, ptr |-> NoEntry, created |-> FALSE,
                        updated |-> FALSE, linked |-> FALSE,
                        caches |-> caches, slot |-> slot, rend |-> rend]} :
       \E hasProgram \in {usesMat /\ ~mb.threw /\ mb.caches[mb.ptr].gpu} :
       \* the geometry pass
       \E g1 \in {IF geo /\ mb.linked THEN glUseProgram(gl, 0) ELSE gl} :
       \E g2 \in {IF cullOff THEN glDisable(g1, "GL_CULL_FACE") ELSE g1} :
       \E g3 \in {IF geo THEN install(g2, hasProgram, programId("group")) ELSE g2} :
       \E g4 \in {IF geo
                  THEN glBindTexture(glActiveTexture(g3, 1), "GL_TEXTURE_2D", lut)
                  ELSE g3} :
       \E geoCalls \in {IF geo THEN <<render(g4, "geometry", phase)>> ELSE << >>} :
       \* the line pass
       \E crash \in (IF line /\ ~ownLine /\ ~members.m_lineMaterial
                     THEN BOOLEAN ELSE {FALSE}) :
       \E g5 \in {IF crash THEN g4
                  ELSE IF ownLine /\ mb.linked THEN glUseProgram(g4, 0)
                  ELSE IF line /\ ~ownLine
                       THEN buildStandard(g4, ~members.m_lineMaterial)
                  ELSE g4} :
       \E g6 \in {IF line /\ ~cullOff /\ ~crash THEN glDisable(g5, "GL_CULL_FACE")
                  ELSE g5} :
       \E g7 \in {IF ~line \/ crash THEN g6
                  ELSE IF ownLine THEN install(g6, hasProgram, programId("group"))
                  ELSE install(g6, TRUE, programId("line"))} :
       \E lineCalls \in {IF line /\ ~crash THEN <<render(g7, "line", phase)>>
                         ELSE << >>} :
       \E g8 \in {IF wasFaceCullingDisabled /\ ~crash THEN glEnable(g7, "GL_CULL_FACE")
                  ELSE g7} :
          /\ ~mb.threw
          /\ mb.created => Len(caches) < MaxCaches
          /\ caches' = mb.caches /\ slot' = mb.slot /\ rend' = mb.rend
          /\ gl' = g8
          /\ phase' = IF crash THEN "crashed" ELSE phase
          /\ members' = [members EXCEPT
                           !.m_sceneData = IF geo THEN newSceneData ELSE @,
                           !.m_brdfLUT = IF geo THEN lut ELSE @,
                           !.allocated["brdfLUT"] =
                               IF geo /\ members.m_brdfLUT = 0 THEN @ + 1 ELSE @]
          /\ ubo' = IF refresh /\ members.m_sceneUBO # 0 THEN newSceneData ELSE ubo
          /\ pixels' = paint(pixels, geoCalls \o lineCalls)
          /\ drawn' = [refreshed |-> refresh] @@
                      [group |-> g,
                       passes |-> (IF geo THEN <<"geometry">> ELSE << >>)
                                  \o (IF line THEN <<"line">> ELSE << >>),
                       builds |-> (IF geo THEN {"mesh", "material", "matProp"} ELSE {})
                                  \cup (IF line THEN {"lineGroup"} ELSE {})
                                  \cup (IF ownLine THEN {"material"} ELSE {})
                                  \cup (IF line /\ ~ownLine THEN {"lineMaterial"}
                                        ELSE {})
                                  \cup (IF line /\ g.matProp THEN {"matProp"} ELSE {}),
                       calls |-> geoCalls \o lineCalls]
          /\ logged' = IF mb.updated /\ shader[GroupMaterial] = "nolink"
                       THEN {LC_Warning} ELSE {}

\* pushState as a step of a renderer call, on the GL state and stack in st:
\* a push onto a full stack is refused and changes nothing.
pushStateIn(st, fb) ==
    IF stackTooBig(Len(st.stack)) THEN st
    ELSE [gl |-> IF fb # 0 THEN glBindFramebuffer(st.gl, fb) ELSE st.gl,
          stack |-> Append(st.stack, StateStorage(st.gl, fb))]

\* A renderer call that never pops what it pushed.
popStateIn_never(st) == st

\* popState as a step of a renderer call: the top frame, whoever pushed it,
\* is restored and popped; nothing happens on an empty stack.
popStateIn(st) ==
    IF st.stack = << >> THEN st
    ELSE [gl |-> restoreState(st.gl, st.stack[Len(st.stack)]),
          stack |-> SubSeq(st.stack, 1, Len(st.stack) - 1)]

\* RendererOGL::genBrdfLUT: the LUT is rendered once into a framebuffer of
\* its own between pushState(true) and popState; nothing is pushed when it
\* was rendered before or when no texture name could be generated (lutOk
\* tells whether glGenTextures gives one).
genBrdfLUT(st, mem, lutOk) ==
    LET texSlot == IF lutOk THEN getBrdfLUT(mem) ELSE mem.m_brdfLUT
        mem1 == IF texSlot # mem.m_brdfLUT
                THEN allocate([mem EXCEPT !.m_brdfLUT = texSlot], "brdfLUT")
                ELSE mem
    IN
    IF mem.m_brdfCalculated \/ texSlot = 0
    THEN [st |-> st, members |-> mem, builds |-> {}, calls |-> << >>,
          refused |-> FALSE]
    ELSE LET refused == stackTooBig(Len(st.stack))
             fb == IF refused THEN 0
                   ELSE glGenFramebuffers(fbs \cup ({mem.m_oitFBO} \ {0}))
             s1 == pushStateIn(st, fb)
             g2 == buildStandard(s1.gl, TRUE)
             g3 == glBindTexture(g2, "GL_TEXTURE_2D", texSlot)
             g4 == [g3 EXCEPT !.viewport = 1]
             g5 == glDisable(glDisable(g4, "GL_DEPTH_TEST"), "GL_CULL_FACE")
             g6 == install(g5, TRUE, programId("brdf"))
         IN [st |-> popStateIn([gl |-> g6, stack |-> s1.stack]),
             members |-> [mem1 EXCEPT !.m_brdfCalculated = TRUE,
                                      !.lutRendered = ~refused],
             builds |-> {"screenQuadMesh", "brdfMaterial"},
             calls |-> <<render(g6, "brdf", "begun")>>,
             refused |-> refused]

\* The OIT target of BeginDrawing: created on the first frame, bound on the
\* later ones, between pushState(false) and popState.
oitTarget(st, mem) ==
    LET refused == stackTooBig(Len(st.stack))
        s1 == pushStateIn(st, 0)
    IN
    IF mem.m_oitFBO = 0
    THEN LET fbo == glGenFramebuffers(fbs)
             g1 == glBindFramebuffer(s1.gl, fbo)
             g2 == glBindTexture(g1, "GL_TEXTURE_2D", textureId("oitAccum"))
             g3 == glBindTexture(g2, "GL_TEXTURE_2D", textureId("oitRevealage"))
             g4 == glBindFramebuffer(g3, 0)
             made == allocate(allocate(allocate(allocate(mem,
                        "oitFBO"), "oitAccumTexture"), "oitRevealageTexture"),
                        "oitDepthRBO")
         IN [st |-> popStateIn([gl |-> g4, stack |-> s1.stack]),
             members |-> [made EXCEPT !.m_oitFBO = fbo,
                                      !.m_oitAccumTexture = textureId("oitAccum"),
                                      !.m_oitRevealageTexture = textureId("oitRevealage")],
             refused |-> refused]
    ELSE [st |-> popStateIn([gl |-> glBindFramebuffer(s1.gl, mem.m_oitFBO),
                             stack |-> s1.stack]),
          members |-> mem, refused |-> refused]

\* What a buffer created by glBufferData(..., nullptr, ...) may hold.
UboContents == [lights : Lights \cup {0}, cameraPos : Cameras \cup {0}]

\* RendererOGL::BeginDrawing(cam, scene). uboOk tells whether glGenBuffers
\* gives a buffer name; without one BeginDrawing returns before the line
\* material and the camera position are set. The record of the call holds
\* the camera and whether the end of the function was reached.
BeginDrawing(cam, lutOk, uboOk) ==
    /\ phase = "idle"
    /\ rend[FrameRenderer].state = "alive" /\ rend[FrameRenderer].ctx
    /\ curCtx = FrameRenderer
    /\ fbs = {}
    /\ members.m_oitFBO = 0 => members.allocated["oitAccumTexture"] < MaxAllocated
    /\ phase' = "begun"
    /\ UNCHANGED cacheVars
    /\ UNCHANGED <<fbs, glCalls>>
    /\ UNCHANGED <<blendFunc, oit, entity>>
    /\ \E brdf \in {genBrdfLUT([gl |-> gl, stack |-> stateStorage], members, lutOk)} :
       \E target \in {oitTarget(brdf.st, brdf.members)} :
       \E g1 \in {target.st.gl} :
       \E create \in {target.members.m_sceneUBO = 0 /\ uboOk} :
       \E done \in {target.members.m_sceneUBO # 0 \/ uboOk} :
       \E firstLine \in {done /\ ~target.members.m_lineMaterial} :
       \E g2 \in {IF firstLine THEN buildStandard(g1, TRUE) ELSE g1} :
       \E upload \in {done /\ target.members.m_sceneData.cameraPos # cam} :
       \E created \in (IF create THEN UboContents ELSE {ubo}) :
       \E mem1 \in {IF create THEN allocate(target.members, "sceneUBO")
                     ELSE target.members} :
          /\ gl' = g2
          /\ stateStorage' = target.st.stack
          /\ pixels' = glClear(pixels, g1)
          /\ members' = [captureCamera(mem1, cam)
                            EXCEPT !.m_sceneUBO = IF create THEN 1 ELSE @,
                                   !.m_lineMaterial = @ \/ done,
                                   !.m_sceneData.cameraPos = IF upload THEN cam ELSE @]
          /\ ubo' = IF upload THEN [created EXCEPT !.cameraPos = cam] ELSE created
          /\ drawn' = [group |-> NullGroup, passes |-> << >>,
                       builds |-> brdf.builds
                                  \cup (IF firstLine THEN {"lineMaterial"} ELSE {}),
                       calls |-> brdf.calls]
          /\ logged' = IF brdf.refused \/ target.refused THEN {LC_Critical} ELSE {}
          /\ lastOp' = [cam |-> cam, done |-> done]
                        @@ Op("BeginDrawing", 0, 0, NoEntry, FALSE, 0, FALSE)

\* The end of a BeginOpaque that leaves depth writes as the skybox draw set
\* them.
enableDepthAndCulling_noMask(g) ==
    glEnable(glEnable(g, "GL_DEPTH_TEST"), "GL_CULL_FACE")

\* The end of RendererOGL::BeginOpaque: glEnable(GL_DEPTH_TEST),
\* glDepthMask(GL_TRUE), glEnable(GL_CULL_FACE).
enableDepthAndCulling(g) ==
    [glEnable(glEnable(g, "GL_DEPTH_TEST"), "GL_CULL_FACE")
        EXCEPT !.depthMask = TRUE]

\* BeginOpaque that leaves blending as the last frame set it.
BeginOpaque_keepBlend(skybox, cam) ==
    /\ phase = "begun"
    /\ phase' = "opaque"
    /\ lastOp' = [skybox |-> skybox, cam |-> cam]
                  @@ Op("BeginOpaque", 0, 0, NoEntry, FALSE, 0, FALSE)
    /\ logged' = {}
    /\ UNCHANGED cacheVars
    /\ UNCHANGED <<fbs, stateStorage, glCalls>>
    /\ UNCHANGED <<blendFunc, ubo, oit, entity>>
    /\ \E g1 \in {gl} :
       \E g2 \in {IF skybox THEN buildStandard(g1, ~members.m_skyboxMaterial)
                  ELSE g1} :
       \E g3 \in {IF skybox
                  THEN [glDisable(glDisable(g2, "GL_DEPTH_TEST"), "GL_CULL_FACE")
                           EXCEPT !.depthMask = FALSE]
                  ELSE g2} :
       \E g4 \in {IF skybox THEN install(g3, TRUE, programId("skybox")) ELSE g3} :
       \E g5 \in {IF skybox
                  THEN glBindTexture(glActiveTexture(g4, 0), "GL_TEXTURE_CUBE_MAP",
                                     textureId("cubemap"))
                  ELSE g4} :
       \E calls \in {IF skybox
                     THEN <<renderWith(g5, "skybox", "opaque", Identity,
                                       members.m_skyboxView, members.m_skyboxProj)>>
                     ELSE << >>} :
       \E g6 \in {enableDepthAndCulling(g5)} :
          /\ gl' = g6
          /\ members' = [members EXCEPT !.m_skyboxMaterial = @ \/ skybox]
          /\ pixels' = paint(pixels, calls)
          /\ drawn' = [group |-> NullGroup, passes |-> << >>,
                       builds |-> IF skybox
                                  THEN {"cubeMesh", "skyboxMaterial", "cubemap"}
                                  ELSE {},
                       calls |-> calls]

\* RendererOGL::BeginOpaque, for a scene with or without a skybox; cam is
\* the state of the caller's camera by now, which BeginOpaque does not read.
BeginOpaque(skybox, cam) ==
    /\ phase = "begun"
    /\ phase' = "opaque"
    /\ lastOp' = [skybox |-> skybox, cam |-> cam]
                  @@ Op("BeginOpaque", 0, 0, NoEntry, FALSE, 0, FALSE)
    /\ logged' = {}
    /\ UNCHANGED cacheVars
    /\ UNCHANGED <<fbs, stateStorage, glCalls>>
    /\ UNCHANGED <<blendFunc, ubo, oit, entity>>
    /\ \E g1 \in {glDisable(gl, "GL_BLEND")} :
       \E g2 \in {IF skybox THEN buildStandard(g1, ~members.m_skyboxMaterial)
                  ELSE g1} :
       \E g3 \in {IF skybox
                  THEN [glDisable(glDisable(g2, "GL_DEPTH_TEST"), "GL_CULL_FACE")
                           EXCEPT !.depthMask = FALSE]
                  ELSE g2} :
       \E g4 \in {IF skybox THEN install(g3, TRUE, programId("skybox")) ELSE g3} :
       \E g5 \in {IF skybox
                  THEN glBindTexture(glActiveTexture(g4, 0), "GL_TEXTURE_CUBE_MAP",
                                     textureId("cubemap"))
                  ELSE g4} :
       \E calls \in {IF skybox
                     THEN <<renderWith(g5, "skybox", "opaque", Identity,
                                       members.m_skyboxView, members.m_skyboxProj)>>
                     ELSE << >>} :
       \E g6 \in {enableDepthAndCulling(g5)} :
          /\ gl' = g6
          /\ members' = [members EXCEPT !.m_skyboxMaterial = @ \/ skybox]
          /\ pixels' = paint(pixels, calls)
          /\ drawn' = [group |-> NullGroup, passes |-> << >>,
                       builds |-> IF skybox
                                  THEN {"cubeMesh", "skyboxMaterial", "cubemap"}
                                  ELSE {},
                       calls |-> calls]

\* RendererOGL::EndOpaque
EndOpaque ==
    /\ phase = "opaque"
    /\ phase' = "opaqueEnded"
    /\ lastOp' = Op("EndOpaque", 0, 0, NoEntry, FALSE, 0, FALSE)
    /\ logged' = {}
    /\ UNCHANGED <<cacheVars, stackVars>>
    /\ UNCHANGED <<members, blendFunc, ubo, pixels, drawn, oit, entity>>

\* RendererOGL::BeginTranslucent
BeginTranslucent ==
    /\ phase = "opaqueEnded"
    /\ gl' = glEnable(gl, "GL_BLEND")
    /\ blendFunc' = <<"GL_ONE", "GL_ONE">>
    /\ phase' = "translucent"
    /\ lastOp' = Op("BeginTranslucent", 0, 0, NoEntry, FALSE, 0, FALSE)
    /\ logged' = {}
    /\ UNCHANGED cacheVars
    /\ UNCHANGED <<fbs, stateStorage, glCalls>>
    /\ UNCHANGED <<members, ubo, pixels, drawn, oit, entity>>

\* RendererOGL::EndTranslucent
EndTranslucent ==
    /\ phase = "translucent"
    /\ phase' = "translucentEnded"
    /\ lastOp' = Op("EndTranslucent", 0, 0, NoEntry, FALSE, 0, FALSE)
    /\ logged' = {}
    /\ UNCHANGED <<cacheVars, stackVars>>
    /\ UNCHANGED <<members, blendFunc, ubo, pixels, drawn, oit, entity>>

\* RendererOGL::EndDrawing(scene): the bound framebuffer is cleared, then
\* the screen quad is drawn with the OIT material and the two OIT textures.
EndDrawing ==
    /\ phase = "translucentEnded"
    /\ phase' = "idle"
    /\ lastOp' = Op("EndDrawing", 0, 0, NoEntry, FALSE, 0, FALSE)
    /\ logged' = {}
    /\ UNCHANGED cacheVars
    /\ UNCHANGED <<fbs, stateStorage, glCalls>>
    /\ UNCHANGED <<members, blendFunc, ubo, oit, entity>>
    /\ \E cleared \in {glClear(pixels, gl)} :
       \E g1 \in {buildStandard(gl, TRUE)} :
       \E g2 \in {glBindTexture(glActiveTexture(g1, 0), "GL_TEXTURE_2D",
                                members.m_oitAccumTexture)} :
       \E g3 \in {glBindTexture(glActiveTexture(g2, 1), "GL_TEXTURE_2D",
                                members.m_oitRevealageTexture)} :
       \E g4 \in {install(g3, TRUE, programId("oit"))} :
       \E calls \in {<<render(g4, "composite", "composite")>>} :
          /\ gl' = g4
          /\ pixels' = paint(cleared, calls)
          /\ drawn' = [group |-> NullGroup, passes |-> << >>,
                       builds |-> {"screenQuadMesh", "oitMaterial"}, calls |-> calls]

\* ------------------------------------------------------------ PreLoadEntity
\* A Group as PreLoadEntity reads it is a null QPointer, or tells which of
\* its lineGroup, mesh, material and materialProperties are set and whether
\* the materialProperties have a texture in one of their slots.
\* Model::groups(), in the key order of the map: models with one group (a
\* null pointer; only a lineGroup; only a mesh; a material and
\* materialProperties without texture; mesh, material and materialProperties
\* with a texture; everything) and with two.
ModelGroups ==
    LET G(l, m, a, p, t) == [null |-> FALSE, lineGroup |-> l, mesh |-> m,
                             mat |-> a, matProp |-> p, tex |-> t]
        N == [null |-> TRUE, lineGroup |-> FALSE, mesh |-> FALSE, mat |-> FALSE,
              matProp |-> FALSE, tex |-> FALSE]
    IN {<<N>>,
        <<G(TRUE, FALSE, FALSE, FALSE, FALSE)>>,
        <<G(FALSE, TRUE, FALSE, FALSE, FALSE)>>,
        <<G(FALSE, FALSE, TRUE, TRUE, FALSE)>>,
        <<G(FALSE, TRUE, TRUE, TRUE, TRUE)>>,
        <<G(TRUE, TRUE, TRUE, TRUE, TRUE)>>,
        <<G(TRUE, FALSE, FALSE, FALSE, FALSE), G(FALSE, TRUE, TRUE, TRUE, TRUE)>>,
        <<N, G(FALSE, FALSE, FALSE, TRUE, TRUE)>>}

\* The entities passed to PreLoadEntity: a null pointer, an entity without a
\* model, and entities with a hidden or a visible model.
Entities ==
    {[null |-> n, model |-> "none", groups |-> << >>] : n \in BOOLEAN} \cup
    {[null |-> FALSE, model |-> m, groups |-> gs] :
        m \in {"hidden", "visible"}, gs \in ModelGroups}

\* The early returns of PreLoadEntity are not taken.
preloads(e) == ~e.null /\ e.model = "visible"

\* PreLoadEntity that skips the texture slots of the materialProperties.
buildsOf_noTextures(g) ==
    IF g.null THEN << >>
    ELSE (IF g.lineGroup THEN <<5>> ELSE << >>)
         \o (IF g.mesh THEN <<3>> ELSE << >>)
         \o (IF g.mat THEN <<1>> ELSE << >>)
         \o (IF g.matProp THEN <<4>> ELSE << >>)

\* The resources one pass of the loop of PreLoadEntity builds caches for,
\* in the order of the calls.
buildsOf(g) ==
    IF g.null THEN << >>
    ELSE (IF g.lineGroup THEN <<5>> ELSE << >>)
         \o (IF g.mesh THEN <<3>> ELSE << >>)
         \o (IF g.mat THEN <<1>> ELSE << >>)
         \o (IF g.matProp THEN <<4>> ELSE << >>)
         \o (IF g.matProp /\ g.tex THEN <<2>> ELSE << >>)

\* The buildXCache calls of PreLoadEntity(e), in order.
RECURSIVE buildsOfAll(_)
buildsOfAll(gs) ==
    IF gs = << >> THEN << >> ELSE buildsOf(Head(gs)) \o buildsOfAll(Tail(gs))

\* The cache table, slot maps and tracking collections as a value that the
\* calls made inside one operation hand on to each other.
CacheState ==
    [caches |-> caches, slot |-> slot, rend |-> rend, threw |-> FALSE,
     created |-> 0, updates |-> 0]

\* Resource::getOrEmplaceXCache<T>(rendererID) on the cache state st.
getOrEmplaceCacheIn(st, res, rendererID, T) ==
    LET it == st.slot[res][rendererID] IN
    IF it = NoEntry \/ ~st.caches[it].alive
    THEN LET c == Len(st.caches) + 1 IN
         [threw |-> FALSE, ptr |-> c, created |-> TRUE,
          caches |-> Append(st.caches, NewCache(res, rendererID, T)),
          slot |-> [st.slot EXCEPT ![res][rendererID] = c]]
    ELSE IF st.caches[it].type # T
         THEN [threw |-> TRUE, ptr |-> NoEntry, created |-> FALSE,
               caches |-> st.caches, slot |-> st.slot]
         ELSE [threw |-> FALSE, ptr |-> it, created |-> FALSE,
               caches |-> st.caches, slot |-> st.slot]

\* RendererOGL::buildXCache(resource) on the cache state st; nothing more
\* happens once a call has thrown.
buildCacheIn(st, r, res) ==
    IF st.threw THEN st
    ELSE LET mc == getOrEmplaceCacheIn(st, res, r, "OGL") IN
         IF mc.threw
         THEN [st EXCEPT !.threw = TRUE]
         ELSE LET c == mc.ptr
                  dirty == isDirty(mc.caches[c])
              IN [caches |-> IF dirty THEN [mc.caches EXCEPT ![c] = update(res, @)]
                             ELSE mc.caches,
                  slot |-> mc.slot,
                  rend |-> IF registers(mc.created)
                           THEN addToCachesIn(st.rend, r, c)
                           ELSE st.rend,
                  threw |-> FALSE,
                  created |-> st.created + (IF mc.created THEN 1 ELSE 0),
                  updates |-> st.updates + (IF dirty THEN 1 ELSE 0)]

\* The cache states after the buildXCache calls for the resources in todo,
\* made one after the other from each state of sts.
RECURSIVE buildAllIn(_, _, _)
buildAllIn(sts, r, todo) ==
    IF todo = << >> THEN sts
    ELSE buildAllIn({buildCacheIn(st, r, Head(todo)) : st \in sts}, r, Tail(todo))

\* RendererOGL::PreLoadEntity(e), called with the renderer's context current.
PreLoadEntity(r, e) ==
    /\ rend[r].state = "alive" /\ rend[r].ctx /\ curCtx = r
    /\ phase = "idle"
    /\ logged' = {}
    /\ UNCHANGED <<resAlive, shader, curCtx>>
    /\ UNCHANGED stackVars
    /\ UNCHANGED <<phase, members, blendFunc, ubo, pixels, oit, entity>>
    /\ \E todo \in {IF preloads(e) THEN buildsOfAll(e.groups) ELSE << >>} :
       \E st \in buildAllIn({CacheState}, r, todo) :
          /\ ~st.threw
          /\ caches' = st.caches /\ slot' = st.slot /\ rend' = st.rend
          /\ drawn' = NoDraw
          /\ lastOp' = [entity |-> e]
                        @@ Op("PreLoadEntity", 0, r, NoEntry, st.created > 0,
                              st.updates, FALSE)

\* A translucent draw covers the pixel: its colour and alpha are blended
\* into the accumulation and revealage buffers with the factors
\* BeginTranslucent sets.
translucentDraw(c, a) ==
    /\ ~oit.composited /\ Len(oit.draws) < MaxOverlap
    /\ oit' = [oit EXCEPT
                 !.accum = [k \in 1..3 |-> blendOneOne(oit.accum[k], c[k])],
                 !.revealage = blendOneOne(oit.revealage, a),
                 !.draws = Append(@, <<c, a>>)]
    /\ lastOp' = Op("translucentDraw", 0, 0, NoEntry, FALSE, 0, FALSE)
    /\ logged' = {}
    /\ UNCHANGED <<cacheVars, stackVars>>
    /\ UNCHANGED <<phase, members, blendFunc, ubo, pixels, drawn, entity>>

\* The screen quad of EndDrawing covers the pixel: OITMaterial.frag runs on it.
composite(TexCoord_x) ==
    /\ ~oit.composited
    /\ oit' = [oit EXCEPT
                 !.texCoord = TexCoord_x,
                 !.out = OITMaterial_main(oit.accum, oit.revealage, TexCoord_x),
                 !.composited = TRUE]
    /\ lastOp' = Op("composite", 0, 0, NoEntry, FALSE, 0, FALSE)
    /\ logged' = {}
    /\ UNCHANGED <<cacheVars, stackVars>>
    /\ UNCHANGED <<phase, members, blendFunc, ubo, pixels, drawn, entity>>

\* BeginDrawing of the next frame clears the two colour buffers to (0,0,0,0).
clearOit ==
    /\ oit.composited
    /\ oit' = ClearedPixel
    /\ lastOp' = Op("clearOit", 0, 0, NoEntry, FALSE, 0, FALSE)
    /\ logged' = {}
    /\ UNCHANGED <<cacheVars, stackVars>>
    /\ UNCHANGED <<phase, members, blendFunc, ubo, pixels, drawn, entity>>

vars == <<cacheVars, stackVars, frameVars, lastOp, logged>>

\* The per-frame cache traffic of live renderers on live resources.
Next ==
    \/ \E r \in RendererIDs, res \in Resources : buildCache(r, res)
    \/ \E res \in Resources, id \in RendererIDs \cup {ALL} : invalidateCache(res, id)
    \/ \E res \in Resources, sh \in ShaderStates : setShader(res, sh)
    \/ \E res \in Resources : setImage(res)
    \/ \E r \in RendererIDs, c \in 1..MaxCaches : DeleteCache(r, c)
    \/ \E c \in RendererIDs \cup {0} : makeCurrent(c)

Spec == Init /\ [][Next]_vars

\* Two backends that share a rendererID.
NextCollision ==
    \/ \E r \in RendererIDs, res \in Resources : buildCache(r, res)
    \/ \E r \in RendererIDs, res \in Resources : emplaceOther(r, res)
    \/ \E res \in Resources, id \in RendererIDs \cup {ALL} : invalidateCache(res, id)
    \/ \E r \in RendererIDs, c \in 1..MaxCaches : DeleteCache(r, c)
    \/ \E c \in RendererIDs \cup {0} : makeCurrent(c)

SpecCollision == Init /\ [][NextCollision]_vars

\* Resources, renderers and GL contexts going away.
NextLifetime ==
    \/ \E r \in RendererIDs, res \in Resources : buildCache(r, res)
    \/ \E r \in RendererIDs, c \in 1..MaxCaches : DeleteCache(r, c)
    \/ \E res \in Resources : destroyResource(res)
    \/ \E r \in RendererIDs : destroyRenderer(r)
    \/ \E r \in RendererIDs : contextLost(r)
    \/ \E c \in RendererIDs \cup {0} : makeCurrent(c)

SpecLifetime == Init /\ [][NextLifetime]_vars

\* Nested passes with GL calls between the pushes and the pops.
NextStack ==
    \/ \E b \in BOOLEAN : Len(stateStorage) < MaxNesting /\ pushState(b)
    \/ popState
    \/ \E call \in GLCalls : glCall(call)

SpecStack == Init /\ [][NextStack]_vars

\* Pushes without a matching pop, up to the depth at which pushState refuses,
\* with one GL call made before the first push or after the last.
NextDepth ==
    \/ \E b \in BOOLEAN : pushState(b)
    \/ popState
    \/ \E call \in GLCalls :
          /\ glCalls = 0
          /\ Len(stateStorage) \in {0, MaxStateStack + 1}
          /\ glCall(call)

SpecDepth == Init /\ [][NextDepth]_vars

\* The frames that DrawAll drives on the View's renderer: BeginDrawing, the
\* opaque pass, the translucent pass, EndDrawing, with Draw calls made
\* between BeginDrawing and EndDrawing and the material edited between frames.
NextFrame ==
    \/ \E c \in RendererIDs \cup {0} : phase = "idle" /\ makeCurrent(c)
    \/ \E sh \in ShaderStates : phase = "idle" /\ setShader(GroupMaterial, sh)
    \/ \E cam \in Cameras : BeginDrawing(cam, TRUE, TRUE)
    \/ \E skybox \in BOOLEAN, cam \in Cameras : BeginOpaque(skybox, cam)
    \/ EndOpaque
    \/ BeginTranslucent
    \/ EndTranslucent
    \/ EndDrawing
    \/ \E g \in Groups, lights \in Lights :
          phase \in {"opaque", "translucent"} /\ Draw(g, lights)

SpecFrame == Init /\ [][NextFrame]_vars

\* The exposed interface used directly: Draw calls made from BeginDrawing
\* on, before and after BeginOpaque.
NextDraw ==
    \/ \E c \in RendererIDs \cup {0} : phase = "idle" /\ makeCurrent(c)
    \/ \E cam \in Cameras : BeginDrawing(cam, TRUE, TRUE)
    \/ \E skybox \in BOOLEAN, cam \in Cameras : BeginOpaque(skybox, cam)
    \/ \E g \in Groups, lights \in Lights : Draw(g, lights)

SpecDraw == Init /\ [][NextDraw]_vars

\* Frames of a render loop with DeleteAllResources called between frames.
NextCycle ==
    \/ \E c \in {0, FrameRenderer} : phase = "idle" /\ makeCurrent(c)
    \/ \E cam \in Cameras : BeginDrawing(cam, TRUE, TRUE)
    \/ BeginOpaque(FALSE, 1)
    \/ EndOpaque
    \/ BeginTranslucent
    \/ EndTranslucent
    \/ EndDrawing
    \/ \E g \in {h \in Groups : ~h.null /\ ~h.hidden /\ ~h.cullOff /\ h.mat},
          lights \in Lights :
          phase = "opaque" /\ Draw(g, lights)
    \/ DeleteAllResourcesOf(FrameRenderer)

SpecCycle == Init /\ [][NextCycle]_vars

\* Frames in which glGenBuffers may give no scene UBO, with Draw calls for
\* groups that have a line group.
NextLine ==
    \/ \E c \in {0, FrameRenderer} : phase = "idle" /\ makeCurrent(c)
    \/ \E uboOk \in BOOLEAN : BeginDrawing(1, TRUE, uboOk)
    \/ BeginOpaque(FALSE, 1)
    \/ EndOpaque
    \/ BeginTranslucent
    \/ EndTranslucent
    \/ EndDrawing
    \/ \E g \in {h \in Groups : ~h.null /\ ~h.hidden /\ h.lineGroup},
          lights \in Lights :
          Draw(g, lights)

SpecLine == Init /\ [][NextLine]_vars

\* Frames begun with frames of the caller on the state stack, up to the
\* depth at which pushState refuses, and with GL name generation that may
\* fail.
NextBalance ==
    \/ \E c \in {0, FrameRenderer} : phase = "idle" /\ makeCurrent(c)
    \/ phase = "idle" /\ lastOp.op \in {"init", "pushState"} /\ pushState(FALSE)
    \/ \E lutOk \in BOOLEAN, uboOk \in BOOLEAN : BeginDrawing(1, lutOk, uboOk)
    \/ BeginOpaque(FALSE, 1)
    \/ EndOpaque
    \/ BeginTranslucent
    \/ EndTranslucent
    \/ EndDrawing

SpecBalance == Init /\ [][NextBalance]_vars

\* The setters and modelMatrix() of one entity, in any order.
NextEntity ==
    \/ \E v \in Positions : setTransform("m_position", v)
    \/ \E v \in Rotations : setTransform("m_rotation", v)
    \/ \E v \in Scales : setTransform("m_scale", v)
    \/ modelMatrix

SpecEntity == Init /\ [][NextEntity]_vars

\* Draw calls and applyUniform calls on the group material's cache, whose
\* program is rebuilt after the material was edited and invalidated.
NextUniform ==
    \/ \E c \in {0, FrameRenderer} : makeCurrent(c)
    \/ \E cam \in {1} : BeginDrawing(cam, TRUE, TRUE)
    \/ \E g \in {h \in Groups : ~h.null /\ ~h.hidden /\ h.mesh /\ ~h.cullOff},
          lights \in Lights : Draw(g, lights)
    \/ \E sh \in ShaderStates : setShader(GroupMaterial, sh)
    \/ invalidateCache(GroupMaterial, FrameRenderer)
    \/ \E c \in DOMAIN caches, name \in UniformNames, value \in UniformValues :
          applyUniform(FrameRenderer, c, name, value)

SpecUniform == Init /\ [][NextUniform]_vars

\* One pixel through the translucent pass and the composite step.
NextComposite ==
    \/ \E c \in Colours, a \in Alphas : translucentDraw(c, a)
    \/ \E x \in TexCoords : composite(x)
    \/ clearOit

SpecComposite == Init /\ [][NextComposite]_vars

\* The state after construction when the scene holds one resource of each type.
InitPreload ==
    /\ resAlive = [res \in EntityResources |-> TRUE]
    /\ shader = [res \in EntityResources |-> "ok"]
    /\ slot = [res \in EntityResources |-> [id \in RendererIDs |-> NoEntry]]
    /\ caches = << >>
    /\ rend = [id \in RendererIDs |-> [state |-> "alive", ctx |-> TRUE, tracked |-> {}, adds |-> 0]]
    /\ curCtx = 0
    /\ lastOp = Op("init", 0, 0, NoEntry, FALSE, 0, FALSE)
    /\ logged = {}
    /\ gl = DefaultGL
    /\ fbs = {}
    /\ stateStorage = << >>
    /\ glCalls = 0
    /\ phase = "idle"
    /\ members = NoMembers
    /\ blendFunc = <<"GL_ONE", "GL_ZERO">>
    /\ ubo = [lights |-> 0, cameraPos |-> 0]
    /\ pixels = [fb \in Framebuffers |-> {}]
    /\ drawn = NoDraw
    /\ oit = ClearedPixel
    /\ entity = NewEntity

\* Entities are preloaded through the renderer of the View, and caches
\* are deleted.
NextPreload ==
    \/ \E c \in {0, FrameRenderer} : makeCurrent(c)
    \/ \E e \in Entities : PreLoadEntity(FrameRenderer, e)
    \/ \E c \in DOMAIN caches :
          /\ Cardinality({d \in DOMAIN caches : ~caches[d].alive}) < MaxDeleted
          /\ DeleteCache(FrameRenderer, c)

SpecPreload == InitPreload /\ [][NextPreload]_vars

\* ================================================================== claims
\* The live cache objects that belong to resource res for rendererID id.
LiveCaches(res, id) ==
    {c \in DOMAIN caches : caches[c].alive /\ caches[c].res = res /\ caches[c].rid = id}

\* C1: two consecutive buildXCache(R) calls on one renderer, with nothing
\* in between, return the same cache pointer and run update() at most once
\* in total.
C1_CacheIdentity ==
    (lastOp.op = "build" /\ lastOp.prevOp = "build")
        => /\ lastOp.ptr = lastOp.prevPtr
           /\ lastOp.updates + lastOp.prevUpdates <= 1

\* C2: the first buildXCache(R) after R.invalidateCache() on a resource with
\* a live cache for the renderer runs update() exactly once, and the cache it
\* returns is not dirty.
C2_DirtyPropagation ==
    (lastOp.op = "build" /\ lastOp.prevOp = "invalidate"
        /\ ~lastOp.created /\ ~lastOp.threw)
        => /\ lastOp.updates = 1
           /\ ~isDirty(caches[lastOp.ptr])

\* C3: at most one live cache object belongs to a (resource, rendererID)
\* pair, and a step allocates a cache object only for a pair whose slot was
\* absent or no longer resolved to a live object.
C3_OnePerPair ==
    /\ [](\A res \in Resources, id \in RendererIDs : Cardinality(LiveCaches(res, id)) <= 1)
    /\ [][Len(caches') > Len(caches) =>
            LET new == caches'[Len(caches')] IN
            \/ slot[new.res][new.rid] = NoEntry
            \/ isNull(slot[new.res][new.rid])]_vars

\* C3 witness: a second cache object was created for a pair whose first
\* cache object had been destroyed.
C3_Witness ==
    \E c1, c2 \in DOMAIN caches :
        /\ c1 < c2
        /\ ~caches[c1].alive /\ caches[c2].alive
        /\ caches[c1].res = caches[c2].res /\ caches[c1].rid = caches[c2].rid
        /\ slot[caches[c2].res][caches[c2].rid] = c2

\* C4: the caches of one resource under two rendererIDs are two objects,
\* and invalidateCache(id1) leaves the slot entry and the dirty flag of the
\* other rendererID's cache as they were.
C4_RendererIsolation ==
    /\ [](\A res \in Resources, id1, id2 \in RendererIDs :
            (id1 # id2 /\ slot[res][id1] # NoEntry /\ slot[res][id2] # NoEntry)
                => slot[res][id1] # slot[res][id2])
    /\ [][(lastOp'.op = "invalidate" /\ lastOp'.rid # ALL) =>
            \A id2 \in RendererIDs \ {lastOp'.rid} :
                LET res == lastOp'.res IN
                /\ slot'[res][id2] = slot[res][id2]
                /\ slot[res][id2] # NoEntry =>
                       caches'[slot[res][id2]] = caches[slot[res][id2]]]_vars

\* C4 witness: a resource has a clean cache under one rendererID right after
\* invalidateCache(id) dirtied its cache under the other.
C4_Witness ==
    /\ lastOp.op = "invalidate" /\ lastOp.rid # ALL
    /\ \E id2 \in RendererIDs \ {lastOp.rid} :
          LET c1 == slot[lastOp.res][lastOp.rid]
              c2 == slot[lastOp.res][id2]
          IN /\ c1 # NoEntry /\ c2 # NoEntry /\ c1 # c2
             /\ caches[c1].alive /\ caches[c1].dirty
             /\ caches[c2].alive /\ ~caches[c2].dirty

\* The concrete cache type a call asks for.
RequestedType(op) == IF op = "build" THEN "OGL" ELSE "Other"

\* C5: getOrEmplaceXCache<B>(id) on a slot that holds a live cache of another
\* concrete type throws, and leaves the slot map, every cache object and the
\* tracking collections as they were.
C5_Collision ==
    [][(/\ lastOp'.op \in {"build", "emplaceOther"}
        /\ slot[lastOp'.res][lastOp'.rid] # NoEntry
        /\ ~isNull(slot[lastOp'.res][lastOp'.rid])
        /\ caches[slot[lastOp'.res][lastOp'.rid]].type # RequestedType(lastOp'.op))
       => /\ lastOp'.threw
          /\ slot' = slot /\ caches' = caches /\ rend' = rend]_vars

\* C5 witness: a call has just thrown on a slot that holds a live, clean
\* cache of the other concrete type.
C5_Witness ==
    /\ lastOp.threw
    /\ LET c == slot[lastOp.res][lastOp.rid] IN
          /\ c # NoEntry /\ caches[c].alive
          /\ caches[c].type # RequestedType(lastOp.op)
          /\ ~caches[c].dirty

\* The fields pushState captures have in g the values they had in pre; the
\* texture bindings are those of the unit that was active in pre.
Restored(g, pre) ==
    /\ g.viewport = pre.viewport
    /\ g.read = pre.read /\ g.draw = pre.draw
    /\ g.feat = pre.feat
    /\ g.active = pre.active
    /\ g.tex[pre.active] = pre.tex[pre.active]
    /\ g.depthMask = pre.depthMask
    /\ g.program = pre.program

\* C6: whatever GL calls were made since the matching pushState, nested
\* push/pop pairs included, a popState leaves every captured field as it was
\* before that pushState.
C6_StackBalance ==
    [][lastOp'.op = "popState" =>
          Restored(gl', stateStorage[Len(stateStorage)].pushedAt)]_vars

\* C7: popState on an empty stack and pushState refused for overflow log at
\* critical severity, throw nothing, and leave the stack, the GL state and
\* the allocated framebuffers unchanged.
C7_MisuseIsNoOp ==
    [][(\/ /\ lastOp'.op \in {"popState", "popStateEmpty"}
           /\ stateStorage = << >>
        \/ /\ lastOp'.op \in {"pushState", "pushStateRejected"}
           /\ Len(stateStorage') <= Len(stateStorage))
       => /\ gl' = gl /\ fbs' = fbs /\ stateStorage' = stateStorage
          /\ logged' = {LC_Critical}
          /\ ~lastOp'.threw]_vars

\* C7 witness: a pushState has just been refused while a framebuffer made by
\* an earlier pushState(true) is bound and a GL call has changed the state.
C7_Witness ==
    /\ lastOp.op = "pushStateRejected"
    /\ logged = {LC_Critical}
    /\ fbs # {} /\ gl.draw \in fbs
    /\ glCalls > 0

\* C8: the state stack never holds more than 24 frames.
C8_DepthCap == Len(stateStorage) <= 24

\* The cache objects RendererOGL r built.
BuiltBy(r) == {c \in DOMAIN caches : caches[c].rid = r /\ caches[c].type = "OGL"}

\* No cache object of a destroyed resource is alive.
NoneOutlivesResource ==
    \A res \in Resources :
        ~resAlive[res] => \A c \in DOMAIN caches : caches[c].res = res => ~caches[c].alive

\* C9 as stated: no cache object outlives its resource, and after a renderer
\* was destroyed, with or without a GL context, none it built is alive.
C9_BoundedLifetime ==
    /\ NoneOutlivesResource
    /\ \A r \in RendererIDs :
          rend[r].state # "alive" => \A c \in BuiltBy(r) : ~caches[c].alive

\* C9 amended: no cache object outlives its resource, and after a renderer
\* was destroyed while its GL context was available, none it built is alive.
C9_BoundedLifetimeWithContext ==
    /\ NoneOutlivesResource
    /\ \A r \in RendererIDs :
          rend[r].state = "deadCtx" => \A c \in BuiltBy(r) : ~caches[c].alive

\* C9 witness: a renderer was just destroyed with its context available, it
\* had built a cache for a resource that still exists, and another resource
\* that had a cache is gone.
C9_Witness ==
    /\ lastOp.op = "destroyRenderer"
    /\ \E r \in RendererIDs :
          /\ rend[r].state = "deadCtx"
          /\ \E c \in BuiltBy(r) : resAlive[caches[c].res]
    /\ \E c \in DOMAIN caches : ~resAlive[caches[c].res]

\* C10: no cache object that holds GPU handles is destroyed while the GL
\* context of its renderer is unavailable or not current.
C10_NoDestroyWithoutContext ==
    \A c \in DOMAIN caches : caches[c].ctxFree

\* C11: every Delete(cache), every resource destructor that calls Delete and
\* DeleteAllResources leave the current GL context as it was before the
\* call: the same context current, or none if none was, whether the cache
\* was destroyed or the call returned early, and whether or not the
\* renderer's context was the current one.
C11_ContextRestored ==
    [][lastOp'.op \in {"Delete", "destroyRenderer", "destroyResource"}
          => curCtx' = curCtx]_vars

\* C11 witness: a Delete has just destroyed a cache that held GPU handles,
\* under its renderer's context, while another renderer's context is the
\* current one.
C11_Witness ==
    /\ lastOp.op = "Delete" /\ logged = {}
    /\ curCtx # 0 /\ curCtx # lastOp.rid
    /\ rend[lastOp.rid].ctx
    /\ \A c \in BuiltBy(lastOp.rid) : ~caches[c].alive /\ caches[c].ctxFree
    /\ BuiltBy(lastOp.rid) # {}

\* C12: the first buildXCache of a resource after a content mutation
\* (Material::setShader, Texture::setImage) on a resource that already has a
\* cache for the renderer runs update().
C12_MutationVisible ==
    (lastOp.op = "build" /\ lastOp.prevOp \in {"setShader", "setImage"}
        /\ ~lastOp.created /\ ~lastOp.threw)
        => lastOp.updates = 1

\* The passes of the draw calls the last operation issued, in order.
PassesOf(calls) == [i \in DOMAIN calls |-> calls[i].pass]

\* C13: when the program of a group's material cannot be built, the cache
\* holds no program, and a Draw of a group that uses the material issues no
\* mesh draw call (so none run by a program an earlier draw left bound) and
\* throws nothing.
C13_NoDrawWithoutProgram ==
    (lastOp.op = "Draw" /\ "material" \in drawn.builds)
        => LET c == slot[GroupMaterial][FrameRenderer] IN
           /\ (shader[GroupMaterial] # "ok" /\ caches[c].dirty) => ~caches[c].gpu
           /\ ~caches[c].gpu => "geometry" \notin {drawn.calls[i].pass : i \in DOMAIN drawn.calls}
           /\ ~lastOp.threw

\* The groups the claim calls a Skip: null, hidden, or with neither a complete
\* mesh + material + materialProperties set nor a lineGroup.
IsSkip(g) ==
    g.null \/ g.hidden \/ (~(g.mesh /\ g.mat /\ g.matProp) /\ ~g.lineGroup)

\* C14: a Draw of a null group, a hidden group, or a group with neither a
\* complete mesh + material + materialProperties set nor a lineGroup builds
\* or updates no cache, issues no draw call and changes no GL toggle, no
\* binding and no scene-UBO data.
C14_SkipIsNoOp ==
    [][(lastOp'.op = "Draw" /\ IsSkip(drawn'.group))
          => /\ caches' = caches /\ slot' = slot /\ rend' = rend
             /\ drawn'.builds = {} /\ drawn'.calls = << >>
             /\ gl' = gl /\ blendFunc' = blendFunc
             /\ ubo' = ubo /\ members' = members
             /\ pixels' = pixels]_vars

\* C14 witness: a hidden group that has a mesh, a material, material
\* properties and a lineGroup was just drawn in the translucent pass, and the
\* material still has no cache.
C14_Witness ==
    /\ lastOp.op = "Draw" /\ phase = "translucent"
    /\ drawn.group.hidden
    /\ drawn.group.mesh /\ drawn.group.mat /\ drawn.group.matProp
    /\ drawn.group.lineGroup
    /\ caches = << >>

\* C15: a Draw of a visible group issues the geometry draw call if and only
\* if mesh, material and materialProperties are all non-null, and the line
\* draw call if and only if lineGroup is non-null, the geometry first.
C15_Passes ==
    (lastOp.op = "Draw" /\ ~drawn.group.null /\ ~drawn.group.hidden)
        => LET g == drawn.group IN
           PassesOf(drawn.calls) =
               (IF g.mesh /\ g.mat /\ g.matProp THEN <<"geometry">> ELSE << >>)
               \o (IF g.lineGroup THEN <<"line">> ELSE << >>)

\* C15 witness: a visible group with all four was drawn in the translucent
\* pass, the geometry draw call first and the line draw call second.
C15_Witness ==
    /\ lastOp.op = "Draw" /\ phase = "translucent"
    /\ ~drawn.group.hidden
    /\ drawn.group.mesh /\ drawn.group.mat /\ drawn.group.matProp
    /\ drawn.group.lineGroup
    /\ PassesOf(drawn.calls) = <<"geometry", "line">>

\* C16: the CULL_FACE toggle after Draw returns equals its value when Draw
\* was called, for every group and every GL state.
C16_CullRestored ==
    [][lastOp'.op = "Draw"
          => gl'.feat["GL_CULL_FACE"] = gl.feat["GL_CULL_FACE"]]_vars

\* C17: throughout the translucent pass the bound draw framebuffer is the
\* renderer's OIT framebuffer.
C17_TranslucentTarget ==
    phase = "translucent"
        => members.m_oitFBO # 0 /\ gl.draw = members.m_oitFBO

\* C18: throughout the translucent pass blending is enabled with the
\* factors ONE, ONE; BeginOpaque leaves blending disabled, and no draw call
\* of an opaque pass is issued with blending enabled.
C18_Blending ==
    /\ [](phase = "translucent"
            => gl.feat["GL_BLEND"] /\ blendFunc = <<"GL_ONE", "GL_ONE">>)
    /\ [](\A i \in DOMAIN drawn.calls :
              drawn.calls[i].phase = "opaque" => ~drawn.calls[i].blend)
    /\ [][lastOp'.op = "BeginOpaque" => ~gl'.feat["GL_BLEND"]]_vars

\* C18 witness: a group was drawn in the opaque pass of a frame that follows
\* a frame whose translucent pass had enabled blending.
C18_Witness ==
    /\ lastOp.op = "Draw" /\ phase = "opaque"
    /\ drawn.calls # << >>
    /\ blendFunc = <<"GL_ONE", "GL_ONE">>

\* C19: after EndDrawing the main framebuffer holds what the opaque pass of
\* the frame drew there, and the composite drawn over it.
C19_CompositeOverOpaque ==
    [][lastOp'.op = "EndDrawing"
          => /\ "opaque" \in pixels[DefaultGL.draw] => "opaque" \in pixels'[DefaultGL.draw]
             /\ "composite" \in pixels'[DefaultGL.draw]]_vars

\* The sum of the colours (k = 1..3) or of the alphas (k = 0) of the draws.
RECURSIVE SumOf(_, _)
SumOf(draws, k) ==
    IF draws = << >> THEN 0
    ELSE (IF k = 0 THEN draws[1][2] ELSE draws[1][1][k]) + SumOf(Tail(draws), k)

\* C20: for every pixel the composite outputs, in the red, green and blue
\* channel, the accumulated colour divided by max(accumulated alpha,
\* epsilon), and outputs the accumulated alpha as alpha: for the draws
\* (c1,a1), (c2,a2) the colour (c1+c2)/(a1+a2) and the alpha a1+a2.
C20_Composite ==
    oit.composited
        => /\ \A k \in 1..3 :
                 oit.out[k] = (SumOf(oit.draws, k) * One)
                                 \div (IF SumOf(oit.draws, 0) > Epsilon
                                       THEN SumOf(oit.draws, 0) ELSE Epsilon)
           /\ oit.out[4] = SumOf(oit.draws, 0)

\* The resources the live groups of the model of e refer to.
ReferencedBy(e) ==
    UNION {{res \in EntityResources :
               \/ res = 5 /\ e.groups[i].lineGroup
               \/ res = 3 /\ e.groups[i].mesh
               \/ res = 1 /\ e.groups[i].mat
               \/ res = 4 /\ e.groups[i].matProp
               \/ res = 2 /\ e.groups[i].tex} : i \in DOMAIN e.groups}

\* C21: PreLoadEntity issues no draw call; for an entity with a non-hidden
\* model every resource its live groups refer to has, on return, a live
\* cache in its slot for this renderer that the renderer has registered;
\* for a null entity, one without a model or with a hidden model nothing
\* is built.
C21_PreLoad ==
    [][lastOp'.op = "PreLoadEntity"
          => LET e == lastOp'.entity
                 r == lastOp'.rid
             IN /\ drawn'.calls = << >> /\ pixels' = pixels /\ gl' = gl
                /\ (~e.null /\ e.model = "visible")
                      => \A res \in ReferencedBy(e) :
                            /\ slot'[res][r] # NoEntry
                            /\ caches'[slot'[res][r]].alive
                            /\ slot'[res][r] \in rend'[r].tracked
                /\ (e.null \/ e.model # "visible")
                      => /\ caches' = caches /\ slot' = slot /\ rend' = rend]_vars

\* C21 witness: a preload that ran update() five times and created a cache
\* has left a live, registered cache for the resource of each of the five
\* types, in a state where an earlier cache had been deleted.
C21_Witness ==
    /\ lastOp.op = "PreLoadEntity" /\ lastOp.created /\ lastOp.updates >= 5
    /\ \A res \in EntityResources :
          /\ slot[res][lastOp.rid] # NoEntry
          /\ caches[slot[res][lastOp.rid]].alive
          /\ slot[res][lastOp.rid] \in rend[lastOp.rid].tracked
    /\ \E c \in DOMAIN caches : ~caches[c].alive

\* C22: invalidateCache(ALL) marks every live cache entry of the resource
\* dirty and erases every entry whose cache object is destroyed;
\* invalidateCache(id) does so for the entry of id only; no other entry and
\* no other cache changes, and without an entry for id nothing changes.
C22_Invalidate ==
    [][lastOp'.op = "invalidate"
          => LET res == lastOp'.res
                 arg == lastOp'.rid
                 visited == IF arg = ALL THEN RendererIDs ELSE {arg}
             IN /\ \A id \in visited :
                      LET c == slot[res][id] IN
                      IF c = NoEntry THEN slot'[res][id] = NoEntry
                      ELSE IF caches[c].alive
                           THEN slot'[res][id] = c /\ caches'[c].dirty
                           ELSE slot'[res][id] = NoEntry
                /\ \A id \in RendererIDs \ visited : slot'[res][id] = slot[res][id]
                /\ \A other \in DOMAIN slot \ {res} : slot'[other] = slot[other]
                /\ DOMAIN caches' = DOMAIN caches
                /\ \A c \in DOMAIN caches :
                      IF caches[c].alive /\ \E id \in visited : slot[res][id] = c
                      THEN caches'[c] = [caches[c] EXCEPT !.dirty = TRUE]
                      ELSE caches'[c] = caches[c]
                /\ rend' = rend]_vars

\* C22 witness: an invalidateCache() with the default argument has erased
\* the entry of a destroyed cache and marked the live cache of the other
\* renderer, which was clean, dirty.
C22_Witness ==
    /\ lastOp.op = "invalidate" /\ lastOp.rid = ALL
    /\ \E c, d \in DOMAIN caches :
          /\ caches[c].res = lastOp.res /\ caches[d].res = lastOp.res
          /\ ~caches[c].alive /\ slot[lastOp.res][caches[c].rid] = NoEntry
          /\ caches[d].alive /\ caches[d].dirty /\ caches[d].gpu
          /\ slot[lastOp.res][caches[d].rid] = d

\* C23: a Delete(cache) or DeleteAllResources that finds the GPU context
\* unavailable destroys nothing (no GPU call), does not throw, and writes
\* to the warning log channel.
C23_LeakIsWarned ==
    [][(lastOp'.op \in {"Delete", "destroyRenderer"} /\ ~rend[lastOp'.rid].ctx)
          => /\ caches' = caches
             /\ ~lastOp'.threw
             /\ LC_Warning \in logged']_vars

\* C24: a cache is dirty from construction and its dirty flag is cleared
\* only by its own update() running to completion: a live cache that is
\* clean holds what an update() built, a cache turns clean only in a
\* buildXCache of that cache that ran update(), and the buildXCache that
\* creates a cache always runs update().
C24_DirtyUntilUpdated ==
    /\ [](\A c \in DOMAIN caches :
             (caches[c].alive /\ ~isDirty(caches[c])) => caches[c].gpu)
    /\ [][\A c \in DOMAIN caches' :
             (/\ caches'[c].alive /\ ~isDirty(caches'[c])
              /\ (c \in DOMAIN caches => isDirty(caches[c])))
                => /\ lastOp'.op = "build" /\ lastOp'.ptr = c
                   /\ lastOp'.updates = 1]_vars
    /\ [][(lastOp'.op = "build" /\ lastOp'.created) => lastOp'.updates = 1]_vars

\* C24 witness: a material cache that was built, marked dirty again by
\* invalidateCache and rebuilt is clean after the second build.
C24_Witness ==
    /\ lastOp.op = "build" /\ lastOp.prevOp = "invalidate"
    /\ ~lastOp.created /\ lastOp.updates = 1
    /\ caches[lastOp.ptr].alive /\ ~isDirty(caches[lastOp.ptr])

\* C25: when the slot of a resource for a rendererID exists but its cache
\* object is destroyed, buildXCache gets a new cache owned by the resource
\* with created == true, the slot entry is overwritten with it, update()
\* runs on it and the renderer registers it.
C25_StaleSlotReplaced ==
    [][(/\ lastOp'.op = "build"
        /\ slot[lastOp'.res][lastOp'.rid] # NoEntry
        /\ ~caches[slot[lastOp'.res][lastOp'.rid]].alive)
          => LET c == lastOp'.ptr IN
             /\ ~lastOp'.threw /\ lastOp'.created
             /\ c \notin DOMAIN caches /\ c \in DOMAIN caches'
             /\ caches'[c].alive /\ caches'[c].res = lastOp'.res
             /\ caches'[c].rid = lastOp'.rid
             /\ slot'[lastOp'.res][lastOp'.rid] = c
             /\ lastOp'.updates = 1
             /\ c \in rend'[lastOp'.rid].tracked]_vars

\* C25 witness: a build has replaced the slot entry of a destroyed cache.
C25_Witness ==
    /\ lastOp.op = "build" /\ lastOp.created
    /\ \E d \in DOMAIN caches :
          /\ ~caches[d].alive /\ d # lastOp.ptr
          /\ caches[d].res = lastOp.res /\ caches[d].rid = lastOp.rid
    /\ slot[lastOp.res][lastOp.rid] = lastOp.ptr
    /\ caches[lastOp.ptr].alive

\* The cache objects created through renderer r: those of the OpenGL
\* backend under its rendererID.
CreatedThrough(r) ==
    {c \in DOMAIN caches : caches[c].rid = r /\ caches[c].type = "OGL"}

\* C26: every live cache object created through a renderer is registered
\* in its tracking collection, and each was registered exactly once: the
\* collection holds nothing else, as many registrations were made as caches
\* were created, and a step registers only the caches it created.
C26_InverseIndex ==
    /\ [](\A r \in RendererIDs :
             /\ \A c \in CreatedThrough(r) : caches[c].alive => c \in rend[r].tracked
             /\ rend[r].tracked = CreatedThrough(r)
             /\ rend[r].adds = Cardinality(CreatedThrough(r)))
    /\ [][\A r \in RendererIDs :
             rend'[r].tracked \ rend[r].tracked
                = {c \in DOMAIN caches' \ DOMAIN caches : caches'[c].rid = r}]_vars

\* C26 witness: after a preload that created caches and a Delete, a second
\* preload found live caches and created one more; a cache of each of the
\* five types is live.
C26_Witness ==
    /\ lastOp.op = "PreLoadEntity" /\ lastOp.created
    /\ \E c \in DOMAIN caches : ~caches[c].alive
    /\ Cardinality({c \in DOMAIN caches : caches[c].alive}) = Cardinality(EntityResources)
    /\ rend[lastOp.rid].adds = Len(caches)
    /\ Len(caches) > Cardinality(EntityResources)

\* The framebuffers held by the frames of the stack.
FrameFramebuffers ==
    {stateStorage[i].m_newFramebuffer : i \in DOMAIN stateStorage} \ {0}

\* C27: the framebuffers pushState(true) created and that are still
\* allocated are those of the frames on the stack, one frame each; a
\* popState deletes the framebuffer of the frame it pops, which was still
\* allocated, and no other; so with the stack empty again none is left.
C27_FramebufferLifetime ==
    /\ [](/\ fbs = FrameFramebuffers
          /\ \A i, j \in DOMAIN stateStorage :
                (i # j /\ stateStorage[i].m_newFramebuffer # 0)
                   => stateStorage[i].m_newFramebuffer # stateStorage[j].m_newFramebuffer
          /\ (stateStorage = << >> => fbs = {}))
    /\ [][lastOp'.op \in {"popState", "popStateEmpty"}
             => IF stateStorage = << >> THEN fbs' = fbs
                ELSE LET fb == stateStorage[Len(stateStorage)].m_newFramebuffer IN
                     /\ fb # 0 => fb \in fbs
                     /\ fbs' = fbs \ {fb}]_vars

\* C27 witness: the inner of two nested pushState(true) frames was popped
\* and its framebuffer deleted; the outer frame still holds its own.
C27_Witness ==
    /\ lastOp.op = "popState" /\ lastOp.ptr # 0
    /\ Len(stateStorage) = 1
    /\ stateStorage[1].m_newFramebuffer # 0
    /\ fbs = {stateStorage[1].m_newFramebuffer}

\* C28: a material or texture cache owns at most one GPU object however
\* often update() ran on it: the object of an earlier update() is released
\* when update() replaces or drops it.
C28_OneHandle ==
    \A c \in DOMAIN caches :
        Kind(caches[c].res) \in {"material", "texture"}
           => /\ caches[c].handles <= 1
              /\ caches[c].handles = (IF caches[c].gpu THEN 1 ELSE 0)

\* C28 witness: update() ran in two builds in a row on the same cache,
\* which owns one GPU object.
C28_Witness ==
    /\ lastOp.op = "build" /\ lastOp.prevOp = "build"
    /\ lastOp.updates = 1 /\ lastOp.prevUpdates = 1
    /\ lastOp.ptr = lastOp.prevPtr
    /\ caches[lastOp.ptr].handles = 1

\* C29: from the return of BeginOpaque to the end of the opaque pass, so
\* after BeginOpaque and after every Draw of the pass, depth test, depth
\* writes and back-face culling are enabled and blending is disabled, with
\* or without a skybox.
C29_OpaqueState ==
    phase = "opaque"
        => /\ gl.feat["GL_DEPTH_TEST"]
           /\ gl.depthMask
           /\ gl.feat["GL_CULL_FACE"]
           /\ ~gl.feat["GL_BLEND"]

\* C29 witness: in a renderer that has drawn a skybox, a group that turns
\* culling off was drawn in the opaque pass.
C29_Witness ==
    /\ phase = "opaque" /\ lastOp.op = "Draw"
    /\ drawn.group.cullOff /\ drawn.calls # << >>
    /\ members.m_skyboxMaterial
    /\ gl.feat["GL_CULL_FACE"] /\ gl.depthMask

\* C30: with a skybox, BeginOpaque issues one draw call, the skybox, right
\* after BeginDrawing and so before any group of the frame, with the
\* identity as model matrix and the view and projection the camera had at
\* that BeginDrawing, whatever the camera is by now; without a skybox it
\* issues no draw call and builds no cache.
C30_Skybox ==
    [][lastOp'.op = "BeginOpaque"
          => IF lastOp'.skybox
             THEN /\ lastOp.op = "BeginDrawing"
                  /\ PassesOf(drawn'.calls) = <<"skybox">>
                  /\ drawn'.calls[1].model = Identity
                  /\ drawn'.calls[1].view = getView(lastOp.cam)
                  /\ drawn'.calls[1].proj = getProjection(lastOp.cam)
                  /\ "cubemap" \in drawn'.builds
             ELSE /\ drawn'.calls = << >>
                  /\ drawn'.builds = {}]_vars

\* C30 witness: the skybox was drawn with the matrices captured by
\* BeginDrawing in a frame whose camera has changed since, after an earlier
\* frame went through its translucent pass.
C30_Witness ==
    /\ lastOp.op = "BeginOpaque" /\ lastOp.skybox
    /\ PassesOf(drawn.calls) = <<"skybox">>
    /\ drawn.calls[1].view = members.m_skyboxView
    /\ drawn.calls[1].view # getView(lastOp.cam)
    /\ blendFunc = <<"GL_ONE", "GL_ONE">>

\* C31: Draw calls RefreshSceneUBO only in a geometry pass whose newly
\* computed scene data differs from the renderer's copy, and applyUniform
\* sets a uniform only when the value differs from the one recorded for
\* the name since the program was last rebuilt.
C31_UploadOnChange ==
    /\ [][lastOp'.op = "Draw"
             => (drawn'.refreshed
                   => /\ "geometry" \in {drawn'.passes[i] : i \in DOMAIN drawn'.passes}
                      /\ members'.m_sceneData # members.m_sceneData)]_vars
    /\ [][lastOp'.op = "applyUniform"
             => (lastOp'.set
                   => /\ caches[lastOp'.ptr].m_uniformCachedInfo[lastOp'.name] # lastOp'.value
                      /\ caches'[lastOp'.ptr].m_uniformCachedInfo[lastOp'.name] = lastOp'.value)]_vars

\* C31 witness: applyUniform was called with the value already recorded and
\* set nothing, in a renderer whose scene data was uploaded by a Draw.
C31_Witness ==
    /\ lastOp.op = "applyUniform" /\ ~lastOp.set
    /\ lastOp.prev = lastOp.value
    /\ caches[lastOp.ptr].gpu
    /\ members.m_sceneData.lights # 0 /\ ubo = members.m_sceneData

\* The draw calls of the line pass of the last Draw.
LineCalls == {i \in DOMAIN drawn.calls : drawn.calls[i].pass = "line"}

C33_MatrixCoherent ==
    /\ [](lastOp.op = "modelMatrix"
            => lastOp.matrix = Matrix(entity.m_rotation, entity.m_scale,
                                      entity.m_position))
    /\ [](~entity.m_matrixDirty
            => entity.m_matrix = Matrix(entity.m_rotation, entity.m_scale,
                                        entity.m_position))
    /\ [][(lastOp'.op = "setTransform" /\ entity[lastOp'.field] = lastOp'.value)
             => entity' = entity]_vars
    /\ [][(lastOp'.op = "modelMatrix" /\ entity.called /\ lastOp'.updates = 1)
             => entity.changed]_vars

\* C33 witness: after position, rotation and scale were changed since the
\* call before, modelMatrix() recomputed and returned their matrix.
C33_Witness ==
    /\ lastOp.op = "modelMatrix" /\ lastOp.updates = 1
    /\ lastOp.prevOp = "-"
    /\ entity.m_position = 1 /\ entity.m_rotation = 1 /\ entity.m_scale = 2
    /\ lastOp.matrix = Matrix(1, 2, 1)
    /\ entity.m_matrix # NewEntity.m_matrix

C35_AllReleased ==
    /\ [][(lastOp'.op = "DeleteAllResources" /\ rend[FrameRenderer].ctx)
             => \A kind \in ObjectKinds : members'.allocated[kind] = 0]_vars
    /\ [](\A kind \in ObjectKinds : members.allocated[kind] <= 1)

\* C36: whenever Draw has issued a geometry draw, the scene uniform buffer on
\* the GPU holds exactly the renderer's CPU copy of the scene data, in every
\* frame, the first one after DeleteAllResources included.
C36_UboCoherent ==
    (lastOp.op = "Draw" /\ drawn.passes # << >> /\ drawn.passes[1] = "geometry")
        => ubo = members.m_sceneData

\* C37: after a Delete(cache) with the context available, of a cache whose
\* resource is alive, the resource's slot for the renderer resolves to no
\* live object and the tracking entry of the cache is dead; the
\* buildXCache(resource) that follows creates a new cache object, runs
\* update() on it exactly once and registers it.
C37_DeleteThenBuild ==
    /\ [][(lastOp'.op = "Delete" /\ rend[lastOp'.rid].ctx
              /\ resAlive[lastOp'.of])
             => /\ LET it == slot'[lastOp'.of][lastOp'.rid]
                   IN it = NoEntry \/ ~caches'[it].alive
                /\ \A t \in rend'[lastOp'.rid].tracked :
                      t = lastOp'.deleted => ~caches'[t].alive]_vars
    /\ [][(lastOp.op = "Delete" /\ rend[lastOp.rid].ctx
              /\ lastOp'.op = "build" /\ lastOp'.res = lastOp.of
              /\ lastOp'.rid = lastOp.rid)
             => /\ ~lastOp'.threw
                /\ lastOp'.created
                /\ lastOp'.ptr # lastOp.deleted
                /\ caches'[lastOp'.ptr].alive
                /\ slot'[lastOp'.res][lastOp'.rid] = lastOp'.ptr
                /\ lastOp'.updates = 1
                /\ lastOp'.ptr \in rend'[lastOp'.rid].tracked]_vars

\* A cache was deleted with the context available and the build that
\* followed made another one for the same resource and renderer.
C37_Witness ==
    /\ lastOp.op = "build" /\ lastOp.created /\ lastOp.updates = 1
    /\ \E c \in DOMAIN caches :
          /\ c # lastOp.ptr /\ ~caches[c].alive /\ caches[c].ctxFree
          /\ caches[c].res = lastOp.res /\ caches[c].rid = lastOp.rid
          /\ c \in rend[lastOp.rid].tracked

C39_LineMaterialSet ==
    (lastOp.op = "Draw" /\ "lineMaterial" \in drawn.builds)
        => members.m_lineMaterial

====
